---- MODULE Spec2Model ----
(***************************************************************************)
(* Rules-resolution engine of dnd_text_game (src/dndrpg/engine):           *)
(* effect / condition lifecycle, rule-hook registry, gates evaluator,      *)
(* modifier stacking resolver and damage pipeline, as a state machine.     *)
(*                                                                         *)
(* Conventions                                                             *)
(*   - Python None for an Optional[int] is the integer NoneInt (-1).       *)
(*   - uuid4() instance ids are the integers 1, 2, ... taken from next_id. *)
(*   - Only the player entity exists for the sub-engines (_entity_by_id    *)
(*     knows no other), so source = target = player in every operation.    *)
(*   - Floats are exact rationals <<numerator, denominator>>.              *)
(***************************************************************************)
EXTENDS Integers, Sequences, FiniteSets, TLC

----------------------------------------------------------------------------
(* Bounds of the model *)

\* total number of instance ids (effects, conditions, zones) ever created
MaxInst == 2

\* instances the hook registry is called for
MaxParents == 4
\* the round counter is capped here
MaxRounds == 2

NoneInt == -1
NoneStr == "<None>"

PLAYER == "pc.aria"

----------------------------------------------------------------------------
(* Generic helpers *)

Max2(a, b) == IF a >= b THEN a ELSE b
Min2(a, b) == IF a <= b THEN a ELSE b

Range(s) == { s[i] : i \in DOMAIN s }

RECURSIVE SumSeq(_)
SumSeq(s) == IF s = << >> THEN 0 ELSE Head(s) + SumSeq(Tail(s))

----------------------------------------------------------------------------
(* Content: immutable rule definitions (ContentIndex)                      *)

\* RuleHook records: scope, priority, match.event, action ops
HookDef(scope, priority, event, action) ==
    [scope |-> scope, priority |-> priority, event |-> event, action |-> action]

\* DurationSpec: type and value (NoneInt when value is absent)
DurationSpec(type, value) == [type |-> type, value |-> value]

NoDuration == DurationSpec("none", NoneInt)

\* Gates: sr.applies, save (branch "absent" when no save gate), attack.mode
GatesDef(sr, saveType, saveBranch, saveDC, attackMode, acType) ==
    [sr |-> sr, saveType |-> saveType, saveBranch |-> saveBranch, saveDC |-> saveDC,
     attackMode |-> attackMode, acType |-> acType]

NoGates == GatesDef(FALSE, "", "absent", 0, "none", "normal")

\* Operation records
OpDamage(amount, dkind, magic) ==
    [op |-> "damage", amount |-> amount, dkind |-> dkind, counts_as_magic |-> magic,
     id |-> "", duration |-> NoDuration, stacks |-> FALSE, nonlethal_only |-> FALSE]
OpHealHP(amount) ==
    [op |-> "heal_hp", amount |-> amount, dkind |-> "", counts_as_magic |-> FALSE,
     id |-> "", duration |-> NoDuration, stacks |-> FALSE, nonlethal_only |-> FALSE]
\* heal_hp with nonlethal_only set
OpHealNonlethal(amount) == [OpHealHP(amount) EXCEPT !.nonlethal_only = TRUE]
OpTempHP(amount) ==
    [op |-> "temp_hp", amount |-> amount, dkind |-> "", counts_as_magic |-> FALSE,
     id |-> "", duration |-> NoDuration, stacks |-> FALSE, nonlethal_only |-> FALSE]
OpConditionApply(id, duration, stacks) ==
    [op |-> "condition.apply", amount |-> 0, dkind |-> "", counts_as_magic |-> FALSE,
     id |-> id, duration |-> duration, stacks |-> stacks, nonlethal_only |-> FALSE]
\* teleport: an operation kind of the schema the executor has no branch for
OpTeleport ==
    [op |-> "teleport", amount |-> 0, dkind |-> "", counts_as_magic |-> FALSE,
     id |-> "", duration |-> NoDuration, stacks |-> FALSE, nonlethal_only |-> FALSE]

\* an amount whose expression names a variable the environment lacks:
\* the parser's evaluate raises on it
BadFormula == -999

\* the "schedule" hook action of this content: delay_rounds and the
\* operations to run when the entry comes due
ScheduleAction == [delay_rounds |-> 1, actions |-> << OpHealHP(1) >>]

\* Modifier records
Modifier(path, operator, value, bonusType, sourceKey) ==
    [targetPath |-> path, operator |-> operator, value |-> value,
     bonusType |-> bonusType, sourceKey |-> sourceKey]

EffectIds == {"spell.shield", "spell.hold", "spell.fireball", "ex.rage", "spell.flash"}

EffectDefs ==
    [e \in EffectIds |->
       CASE e = "spell.shield" ->
              [abilityType |-> "Spell", duration |-> DurationSpec("rounds", 2),
               gates |-> NoGates, operations |-> << >>,
               modifiers |-> << Modifier("save.will", "add", 2, "morale", NoneStr) >>,
               ruleHooks |-> << HookDef("incoming.damage", 5, "incoming.damage", "multiply"),
                                HookDef("scheduler", 1, "startOfTurn", "schedule") >>]
         [] e = "spell.hold" ->
              [abilityType |-> "Spell", duration |-> DurationSpec("rounds", 1),
               gates |-> GatesDef(TRUE, "Will", "negates", 15, "none", "normal"),
               operations |-> << OpDamage(2, "cold", FALSE), OpTempHP(2),
                                 OpConditionApply("cond.paralyzed", DurationSpec("rounds", 2), FALSE) >>,
               modifiers |-> << >>,
               ruleHooks |-> << HookDef("on.save", 0, "on.save.pre", "modify") >>]
         [] e = "spell.fireball" ->
              [abilityType |-> "Spell", duration |-> NoDuration,
               gates |-> GatesDef(TRUE, "Ref", "half", 8, "ranged_touch", "touch"),
               operations |-> << OpDamage(4, "fire", TRUE) >>,
               modifiers |-> << >>,
               ruleHooks |-> << HookDef("on.attack", 0, "on.attack.pre", "modify") >>]
         [] e = "ex.rage" ->
              [abilityType |-> "Ex", duration |-> DurationSpec("permanent", NoneInt),
               gates |-> NoGates, operations |-> << OpHealHP(1) >>,
               modifiers |-> << Modifier("save.will", "add", 1, "morale", NoneStr) >>,
               ruleHooks |-> << HookDef("scheduler", 0, "endOfTurn", "schedule") >>]
         [] OTHER ->
              \* "spell.flash": a rounds duration whose literal value is 0
              [abilityType |-> "Sp", duration |-> DurationSpec("rounds", 0),
               gates |-> NoGates, operations |-> << >>,
               modifiers |-> << >>,
               ruleHooks |-> << HookDef("scheduler", 2, "startOfTurn", "modify") >>]]

ConditionIds == {"cond.paralyzed", "cond.shaken"}

ConditionDefs ==
    [c \in ConditionIds |->
       CASE c = "cond.paralyzed" ->
              [default_duration |-> DurationSpec("rounds", 1), tags |-> {"paralyzed"},
               modifiers |-> << >>,
               ruleHooks |-> << HookDef("on.attack", 1, "on.attack.pre", "modify") >>]
         [] OTHER ->
              [default_duration |-> NoDuration, tags |-> {"shaken"},
               modifiers |-> << Modifier("save.will", "subtract", 2, NoneStr, NoneStr) >>,
               ruleHooks |-> << >>]]

\* duration overrides an operation or caller may pass to ConditionsEngine.apply
DurationOverrides ==
    { NoDuration, DurationSpec("rounds", 2) }

----------------------------------------------------------------------------
(* Exact rationals <<n, d>> with d > 0, standing for Python floats *)

Abs(x) == IF x < 0 THEN -x ELSE x

RECURSIVE GCD(_, _)
GCD(a, b) == IF b = 0 THEN a ELSE GCD(b, a % b)

RNorm(n, d) ==
    LET nn == IF d < 0 THEN -n ELSE n
        dd == Abs(d)
        g  == GCD(Abs(nn), dd)
    IN  IF g = 0 THEN << 0, 1 >> ELSE << nn \div g, dd \div g >>

RInt(k) == << k, 1 >>
RAdd(r, q) == RNorm(r[1] * q[2] + q[1] * r[2], r[2] * q[2])
RAddInt(r, k) == RNorm(r[1] + k * r[2], r[2])
RMul(r, f) == RNorm(r[1] * f[1], r[2] * f[2])
\* max(r, k) and min(r, k) for an integer k
RMaxInt(r, k) == IF r[1] >= k * r[2] THEN r ELSE RInt(k)
RMinInt(r, k) == IF r[1] <= k * r[2] THEN r ELSE RInt(k)

\* Python round(): nearest integer, ties to the even neighbour
PyRound(r) ==
    LET n == r[1]
        d == r[2]
        fl == IF n >= 0 THEN n \div d ELSE -(((-n) + d - 1) \div d)
        rem2 == 2 * (n - fl * d)
    IN  IF rem2 < d THEN fl
        ELSE IF rem2 > d THEN fl + 1
        ELSE IF fl % 2 = 0 THEN fl ELSE fl + 1

----------------------------------------------------------------------------
(* Modifier stacking resolver: ModifiersEngine.apply_to_value              *)

\* Python truthiness of an Optional[str]
Falsy(s) == s \in {NoneStr, ""}

TYPED_STACK == {"dodge"}

\* EvaluatedMod
EvaluatedMod(operator, value, bonusType, sourceKey) ==
    [operator |-> operator, value |-> value, bonusType |-> bonusType, sourceKey |-> sourceKey]

\* (em.value if em.operator == "add" else -em.value)
Delta(em) == IF em.operator = "add" THEN em.value ELSE -em.value

RECURSIVE MaxSeq(_)
MaxSeq(s) == IF Len(s) = 1 THEN s[1] ELSE Max2(s[1], MaxSeq(Tail(s)))

RECURSIVE MinSeq(_)
MinSeq(s) == IF Len(s) = 1 THEN s[1] ELSE Min2(s[1], MinSeq(Tail(s)))

RECURSIVE ProdSeq(_)
ProdSeq(s) == IF s = << >> THEN 1 ELSE Head(s) * ProdSeq(Tail(s))

RECURSIVE SumOver(_, _)
SumOver(S, f) ==
    IF S = {} THEN 0
    ELSE LET x == CHOOSE y \in S : TRUE IN f[x] + SumOver(S \ {x}, f)

Deltas(mods) == [i \in 1..Len(mods) |-> Delta(mods[i])]
Values(mods) == [i \in 1..Len(mods) |-> mods[i].value]

\* step 1: the last set/replace modifier of the list overrides the base
SetReplace(base, mods) ==
    LET sets == SelectSeq(mods, LAMBDA em : em.operator \in {"set", "replace"})
    IN  IF sets = << >> THEN base ELSE RInt(sets[Len(sets)].value)

\* step 2, typed: one bonus type's contribution
TypedGroupTotal_SumAll(btype, lst) == SumSeq(Deltas(lst))

TypedGroupTotal(btype, lst) ==
    IF btype \in TYPED_STACK THEN SumSeq(Deltas(lst)) ELSE MaxSeq(Deltas(lst))

\* step 2, untyped: one sourceKey's contribution
SourceGroupTotal(skey, lst) ==
    IF skey = NoneStr THEN SumSeq(Deltas(lst)) ELSE MaxSeq(Deltas(lst))

AdditiveTotal(mods) ==
    LET adds    == SelectSeq(mods, LAMBDA em : em.operator \in {"add", "subtract"})
        typed   == SelectSeq(adds, LAMBDA em : ~Falsy(em.bonusType))
        untyped == SelectSeq(adds, LAMBDA em : Falsy(em.bonusType))
        types   == { typed[i].bonusType : i \in DOMAIN typed }
        skeys   == { untyped[i].sourceKey : i \in DOMAIN untyped }
        typed_total ==
            SumOver(types, [t \in types |->
                TypedGroupTotal(t, SelectSeq(typed, LAMBDA em : em.bonusType = t))])
        untyped_total ==
            SumOver(skeys, [k \in skeys |->
                SourceGroupTotal(k, SelectSeq(untyped, LAMBDA em : em.sourceKey = k))])
    IN  typed_total + untyped_total

\* step 3: one factor from all multiply / divide modifiers
Factor(mods) ==
    LET muls == SelectSeq(mods, LAMBDA em : em.operator = "multiply")
        divs == SelectSeq(mods, LAMBDA em : em.operator = "divide" /\ em.value # 0)
    IN  RNorm(ProdSeq(Values(muls)), ProdSeq(Values(divs)))

\* step 4: min / max bounds
MinMaxBounds(current, mods) ==
    LET mins == SelectSeq(mods, LAMBDA em : em.operator = "min")
        maxs == SelectSeq(mods, LAMBDA em : em.operator = "max")
        c1 == IF mins = << >> THEN current ELSE RMaxInt(current, MaxSeq(Values(mins)))
    IN  IF maxs = << >> THEN c1 ELSE RMinInt(c1, MinSeq(Values(maxs)))

\* step 5: cap / clamp as an upper cap
CapClamp(current, mods) ==
    LET caps == SelectSeq(mods, LAMBDA em : em.operator \in {"cap", "clamp"})
    IN  IF caps = << >> THEN current ELSE RMinInt(current, MinSeq(Values(caps)))

apply_to_value(base, mods) ==
    IF mods = << >> THEN base
    ELSE LET c1 == SetReplace(base, mods)
             c2 == RAddInt(c1, AdditiveTotal(mods))
             c3 == RMul(c2, Factor(mods))
             c4 == MinMaxBounds(c3, mods)
         IN  CapClamp(c4, mods)

----------------------------------------------------------------------------
(* Damage pipeline: DamageEngine                                           *)

PhysicalKinds == {"physical.bludgeoning", "physical.piercing", "physical.slashing"}

\* pkt.dkind.startswith("physical.")
IsPhysical(dkind) == dkind \in PhysicalKinds

\* pkt.dkind.split(".")[-1] for a physical kind
WeaponTail(dkind) ==
    CASE dkind = "physical.bludgeoning" -> "bludgeoning"
      [] dkind = "physical.piercing" -> "piercing"
      [] dkind = "physical.slashing" -> "slashing"
      [] OTHER -> ""

DamagePacket(amount, dkind, magic, material, alignment) ==
    [amount |-> amount, dkind |-> dkind, counts_as_magic |-> magic,
     counts_as_material |-> material, counts_as_alignment |-> alignment]

DREntry(value, bypass_magic, bypass_materials, bypass_alignments, bypass_weapon_types) ==
    [value |-> value, bypass_magic |-> bypass_magic, bypass_materials |-> bypass_materials,
     bypass_alignments |-> bypass_alignments, bypass_weapon_types |-> bypass_weapon_types]

\* TRUE when the DR entry is not bypassed by the packet
dr_applies(dr, pkt) ==
    IF pkt.counts_as_magic /\ dr.bypass_magic THEN FALSE
    ELSE IF dr.bypass_materials \cap pkt.counts_as_material # {} THEN FALSE
    ELSE IF dr.bypass_alignments \cap pkt.counts_as_alignment # {} THEN FALSE
    ELSE IF WeaponTail(pkt.dkind) # "" /\ WeaponTail(pkt.dkind) \in dr.bypass_weapon_types THEN FALSE
    ELSE TRUE

\* an absorption pool matches a damage kind
absorption_matches(rs, dkind) ==
    IF rs.absorbTypes = {} THEN FALSE
    ELSE IF "any" \in rs.absorbTypes THEN TRUE
    ELSE IF "physical" \in rs.absorbTypes /\ IsPhysical(dkind) THEN TRUE
    ELSE dkind \in rs.absorbTypes

\* indices of state.resources in the iteration order of the dict keys that
\* start with "effect:" (key insertion order, then list order)
RECURSIVE EffectKeyOrder(_, _)
EffectKeyOrder(res, j) ==
    IF j > Len(res) THEN << >>
    ELSE LET k == res[j].key
             first == \A i \in 1..(j - 1) : res[i].key # k
             group == SelectSeq([i \in 1..Len(res) |-> i], LAMBDA i : res[i].key = k)
         IN  (IF first /\ k[1] = "effect" THEN group ELSE << >>) \o EffectKeyOrder(res, j + 1)

\* indices of the pools that absorb this kind for the entity, in visiting order
find_absorbers(res, entity_id, dkind) ==
    LET all == [i \in 1..Len(res) |-> i]
        ent == SelectSeq(all, LAMBDA i : res[i].key = << "entity", entity_id >>
                                         /\ absorption_matches(res[i], dkind))
        eff == SelectSeq(EffectKeyOrder(res, 1),
                         LAMBDA i : res[i].owner_entity_id = entity_id
                                    /\ absorption_matches(res[i], dkind))
    IN  ent \o eff

\* Stage 1: drop immune kinds, clamp amounts at 0
StageImmunity(ent, packets) ==
    LET kept == SelectSeq(packets, LAMBDA p : p.dkind \notin ent.immunities)
    IN  [i \in 1..Len(kept) |-> [kept[i] EXCEPT !.amount = Max2(0, kept[i].amount)]]

\* Stage 3.1: energy resistance per packet
StageResist(ent, working) ==
    [i \in 1..Len(working) |->
        LET p == working[i]
            resist == ent.energy_resist[p.dkind]
        IN  IF resist > 0 /\ p.amount > 0
            THEN [p EXCEPT !.amount = Max2(0, p.amount - resist)]
            ELSE p]

phys_indices(working) ==
    SelectSeq([i \in 1..Len(working) |-> i],
              LAMBDA i : IsPhysical(working[i].dkind) /\ working[i].amount > 0)

\* the DR entries at least one physical packet does not bypass
ApplicableDR(ent, working) ==
    SelectSeq(ent.dr, LAMBDA dr : \E i \in Range(phys_indices(working)) : dr_applies(dr, working[i]))

\* max(applicable, key=value): the first entry of the highest value
BestDR(applicable) ==
    LET top == MaxSeq([i \in 1..Len(applicable) |-> applicable[i].value])
        i0  == CHOOSE i \in 1..Len(applicable) :
                  /\ applicable[i].value = top
                  /\ \A j \in 1..(i - 1) : applicable[j].value # top
    IN  applicable[i0]

SumSubject(best_dr, working) ==
    LET idx == SelectSeq(phys_indices(working), LAMBDA i : dr_applies(best_dr, working[i]))
    IN  SumSeq([k \in 1..Len(idx) |-> working[idx[k]].amount])

\* the amount DR removes from this attack
DRAmount(ent, working) ==
    IF phys_indices(working) = << >> \/ ent.dr = << >> THEN 0
    ELSE LET applicable == ApplicableDR(ent, working)
         IN  IF applicable = << >> THEN 0
             ELSE LET best == BestDR(applicable)
                      sum_subject == SumSubject(best, working)
                  IN  IF sum_subject > 0 /\ best.value > 0
                      THEN Min2(best.value, sum_subject) ELSE 0

\* reduce packets in order until DR is consumed
RECURSIVE DRDistribute(_, _, _, _)
DRDistribute(working, best_dr, remaining_dr, i) ==
    IF i > Len(working) \/ remaining_dr <= 0 THEN working
    ELSE LET pkt == working[i]
         IN  IF ~(IsPhysical(pkt.dkind) /\ pkt.amount > 0) \/ ~dr_applies(best_dr, pkt)
             THEN DRDistribute(working, best_dr, remaining_dr, i + 1)
             ELSE LET take == Min2(pkt.amount, remaining_dr)
                  IN  DRDistribute([working EXCEPT ![i].amount = pkt.amount - take],
                                   best_dr, remaining_dr - take, i + 1)

\* damage reduction taken off every packet it applies to
StageDR_PerPacket(ent, working) ==
    IF DRAmount(ent, working) = 0 THEN working
    ELSE LET best == BestDR(ApplicableDR(ent, working))
         IN  [i \in 1..Len(working) |->
                 IF IsPhysical(working[i].dkind) /\ working[i].amount > 0
                    /\ dr_applies(best, working[i])
                 THEN [working[i] EXCEPT !.amount = @ - Min2(@, best.value)]
                 ELSE working[i]]

\* Stage 3.2: damage reduction once per attack
StageDR(ent, working) ==
    LET dr_amount == DRAmount(ent, working)
    IN  IF dr_amount = 0 THEN working
        ELSE DRDistribute(working, BestDR(ApplicableDR(ent, working)), dr_amount, 1)

\* one packet against its absorbers: <<resources, remaining amount>>
RECURSIVE AbsorbPacket(_, _, _)
AbsorbPacket(res, amount, absorbers) ==
    IF absorbers = << >> \/ amount <= 0 THEN << res, amount >>
    ELSE LET i == Head(absorbers)
             rs == res[i]
             can == IF rs.absorbPerHit # NoneInt THEN Min2(rs.current, rs.absorbPerHit)
                    ELSE rs.current
             take == Min2(can, amount)
         IN  IF take > 0
             THEN AbsorbPacket([res EXCEPT ![i].current = rs.current - take],
                               amount - take, Tail(absorbers))
             ELSE AbsorbPacket(res, amount, Tail(absorbers))

\* a pipeline without the pool stage
StageAbsorb_Skip(res, entity_id, working, i) == << res, working >>

\* Stage 3.3: ablative pools, packet by packet: <<resources, working>>
RECURSIVE StageAbsorb(_, _, _, _)
StageAbsorb(res, entity_id, working, i) ==
    IF i > Len(working) THEN << res, working >>
    ELSE IF working[i].amount <= 0 THEN StageAbsorb(res, entity_id, working, i + 1)
    ELSE LET r == AbsorbPacket(res, working[i].amount,
                               find_absorbers(res, entity_id, working[i].dkind))
         IN  StageAbsorb(r[1], entity_id, [working EXCEPT ![i].amount = r[2]], i + 1)

\* float(ent.vulnerabilities.get(dkind, 1.0) or 1.0)
VulnFactor(ent, dkind) ==
    LET v == ent.vulnerabilities[dkind]
    IN  IF v[1] = 0 THEN RInt(1) ELSE v

\* Stage 4: vulnerability multiplier per packet
StageVulnerability(ent, working) ==
    [i \in 1..Len(working) |->
        LET p == working[i]
            v == VulnFactor(ent, p.dkind)
        IN  IF p.amount <= 0 \/ v = RInt(1) THEN p
            ELSE [p EXCEPT !.amount = Max2(0, PyRound(RMul(RInt(p.amount), v)))]]

\* Stage 5: commit to hit points / nonlethal, in packet order
RECURSIVE StageCommit(_, _, _)
StageCommit(ent, working, i) ==
    IF i > Len(working) THEN ent
    ELSE LET p == working[i]
         IN  IF p.amount <= 0 THEN StageCommit(ent, working, i + 1)
             ELSE IF p.dkind = "nonlethal"
             THEN StageCommit([ent EXCEPT !.nonlethal_damage = Max2(0, @ + p.amount)],
                              working, i + 1)
             ELSE StageCommit([ent EXCEPT !.hp_current = Max2(0, @ - p.amount)],
                              working, i + 1)

\* the pipeline with the vulnerability stage ahead of resist / DR / pools
apply_packets_VulnerabilityFirst(ent, res, packets) ==
    LET w1 == StageImmunity(ent, packets)
        w2 == StageVulnerability(ent, w1)
        w3 == StageResist(ent, w2)
        w4 == StageDR(ent, w3)
        ab == StageAbsorb(res, PLAYER, w4, 1)
        w5 == ab[2]
        e2 == StageCommit(ent, w5, 1)
        phys == SelectSeq(w5, LAMBDA p : IsPhysical(p.dkind))
    IN  IF w1 = << >>
        THEN [player |-> ent, resources |-> res, working |-> << >>,
              total_hp_damage |-> 0, total_nonlethal |-> 0,
              physical_damage_applied |-> 0, dr_amount |-> 0]
        ELSE [player |-> e2, resources |-> ab[1], working |-> w5,
              total_hp_damage |-> ent.hp_current - e2.hp_current,
              total_nonlethal |-> e2.nonlethal_damage - ent.nonlethal_damage,
              physical_damage_applied |-> SumSeq([i \in 1..Len(phys) |-> phys[i].amount]),
              dr_amount |-> DRAmount(ent, w3)]

\* DamageEngine.apply_packets on the player: the new entity, the new
\* resources and the PipelineResult
apply_packets(ent, res, packets) ==
    LET w1 == StageImmunity(ent, packets)
        w2 == StageResist(ent, w1)
        w3 == StageDR(ent, w2)
        ab == StageAbsorb(res, PLAYER, w3, 1)
        w4 == ab[2]
        w5 == StageVulnerability(ent, w4)
        e2 == StageCommit(ent, w5, 1)
        phys == SelectSeq(w5, LAMBDA p : IsPhysical(p.dkind))
    IN  IF w1 = << >>
        THEN [player |-> ent, resources |-> res, working |-> << >>,
              total_hp_damage |-> 0, total_nonlethal |-> 0,
              physical_damage_applied |-> 0, dr_amount |-> 0]
        ELSE [player |-> e2, resources |-> ab[1], working |-> w5,
              total_hp_damage |-> ent.hp_current - e2.hp_current,
              total_nonlethal |-> e2.nonlethal_damage - ent.nonlethal_damage,
              physical_damage_applied |-> SumSeq([i \in 1..Len(phys) |-> phys[i].amount]),
              dr_amount |-> DRAmount(ent, w2)]

----------------------------------------------------------------------------
(* State *)

VARIABLES
    player,             \* Entity: hit points and defences
    active_effects,     \* GameState.active_effects[player]: list of EffectInstance
    active_conditions,  \* GameState.active_conditions[player]: list of ConditionInstance
    by_scope,           \* RuleHooksRegistry._by_scope[scope][player]
    parent_index,       \* RuleHooksRegistry._parent_index
    resources,          \* GameState.resources, pools in creation order
    active_zones,       \* GameState.active_zones[player]: list of ZoneInstance
    sched_queue,        \* Scheduler._queue: list of Scheduled
    sched_round,        \* round counter of the state the Scheduler is bound to,
                        \* NoneInt while that is the live state
    save_file,          \* save.json of the slot: empty, or the one dumped state
    rng,                \* the random source: the values it will yield, in order
    twin,               \* a second run of the same operations (empty when unused)
    round_counter,      \* GameState.round_counter
    next_id,            \* next fresh uuid
    last                \* the last call: operation, arguments, return value, log

vars == << player, active_effects, active_conditions, by_scope, parent_index,
           resources, active_zones, sched_queue, sched_round, save_file, rng, twin,
           round_counter, next_id, last >>

----------------------------------------------------------------------------
(* Rule hooks registry: RuleHooksRegistry                                  *)

HookScopes == {"incoming.effect", "incoming.damage", "scheduler", "on.save", "on.attack"}

\* RegisteredHook; the uuid hook_id is the pair <<parent instance id, k>>
RegisteredHook(hook_id, h) ==
    [hook_id |-> hook_id, scope |-> h.scope, priority |-> h.priority,
     event |-> h.event, action |-> h.action]

\* a bucket left in append order
SortByPriority_Unsorted(bucket) == bucket

\* list.sort(key=priority): stable, ascending
RECURSIVE SortByPriority(_)
SortByPriority(bucket) ==
    IF bucket = << >> THEN << >>
    ELSE LET n == Len(bucket)
             rest == SortByPriority(SubSeq(bucket, 1, n - 1))
             x == bucket[n]
             before == SelectSeq(rest, LAMBDA h : h.priority <= x.priority)
             after == SelectSeq(rest, LAMBDA h : h.priority > x.priority)
         IN  before \o << x >> \o after

\* _register: append to the bucket, sort it, note the hook under its parent
register(reg, hook_def, parent_instance_id, k) ==
    LET rh == RegisteredHook(<< parent_instance_id, k >>, hook_def)
    IN  [by_scope |-> [reg.by_scope EXCEPT ![rh.scope] = SortByPriority(Append(@, rh))],
         parent_index |-> Append(reg.parent_index,
                                 [parent |-> parent_instance_id, scope |-> rh.scope,
                                  hook_id |-> rh.hook_id])]

\* register_for_effect: every ruleHook of the definition, in order
RECURSIVE register_for_effect(_, _, _, _)
register_for_effect(reg, ruleHooks, parent_instance_id, k) ==
    IF k > Len(ruleHooks) THEN reg
    ELSE register_for_effect(register(reg, ruleHooks[k], parent_instance_id, k),
                             ruleHooks, parent_instance_id, k + 1)

\* unregister_by_parent: pop the parent's entries, drop each hook by id
unregister_by_parent(reg, parent_instance_id) ==
    LET entries == SelectSeq(reg.parent_index, LAMBDA e : e.parent = parent_instance_id)
        ids == { entries[i].hook_id : i \in DOMAIN entries }
        scopes == { entries[i].scope : i \in DOMAIN entries }
    IN  [by_scope |-> [sc \in HookScopes |->
                          IF sc \in scopes
                          THEN SelectSeq(reg.by_scope[sc], LAMBDA h : h.hook_id \notin ids)
                          ELSE reg.by_scope[sc]],
         parent_index |-> SelectSeq(reg.parent_index, LAMBDA e : e.parent # parent_instance_id)]

RECURSIVE unregister_all(_, _)
unregister_all(reg, parents) ==
    IF parents = << >> THEN reg
    ELSE unregister_all(unregister_by_parent(reg, Head(parents)), Tail(parents))

\* every hook held by the registry, over all buckets
AllHooks(bs) == UNION { Range(bs[sc]) : sc \in HookScopes }

\* the instance a registered hook was registered for
HookParent(h) == h.hook_id[1]

----------------------------------------------------------------------------
(* Instances and durations                                                 *)

EffectInstance(instance_id, definition_id, abilityType, duration_type, remaining_rounds) ==
    [instance_id |-> instance_id, definition_id |-> definition_id,
     abilityType |-> abilityType, duration_type |-> duration_type,
     remaining_rounds |-> remaining_rounds, suppressed |-> FALSE]

ConditionInstance(instance_id, definition_id, duration_type, remaining_rounds, tags) ==
    [instance_id |-> instance_id, definition_id |-> definition_id,
     duration_type |-> duration_type, remaining_rounds |-> remaining_rounds,
     tags |-> tags]

\* EffectsEngine._snapshot_duration_rounds: <<duration type, remaining rounds>>
effect_snapshot_duration(ds) ==
    IF ds = NoDuration THEN << "instantaneous", NoneInt >>
    ELSE IF ds.type = "rounds"
         THEN IF ds.value # NoneInt THEN << "rounds", Max2(0, ds.value) >>
              ELSE << "rounds", NoneInt >>
    ELSE << ds.type, NoneInt >>

\* ConditionsEngine._snapshot_duration_rounds
condition_snapshot_duration(cd, override) ==
    LET ds == IF override # NoDuration THEN override ELSE cd.default_duration
    IN  IF ds = NoDuration THEN << "instantaneous", NoneInt >>
        ELSE IF ds.type \in {"instantaneous", "permanent", "special"} THEN << ds.type, NoneInt >>
        ELSE IF ds.type = "rounds"
             THEN IF ds.value # NoneInt THEN << "rounds", Max2(0, ds.value) >>
                  ELSE << "rounds", NoneInt >>
        ELSE << ds.type, NoneInt >>

\* the body of both tick loops: a counted instance loses one round
Ticks(inst) == inst.duration_type = "rounds" /\ inst.remaining_rounds # NoneInt

\* the decrement guarded one round too late
TickDecrement_OffByOne(inst) ==
    IF Ticks(inst) /\ inst.remaining_rounds > 1
    THEN [inst EXCEPT !.remaining_rounds = @ - 1]
    ELSE inst

TickDecrement(inst) ==
    IF Ticks(inst) /\ inst.remaining_rounds > 0
    THEN [inst EXCEPT !.remaining_rounds = @ - 1]
    ELSE inst

\* after the decrement: dropped from the list
TickExpires(inst) == Ticks(inst) /\ TickDecrement(inst).remaining_rounds <= 0

\* what a tick reports of an expired instance: <<instance id, definition id>>
Expired(gone) == [i \in 1..Len(gone) |-> << gone[i].instance_id, gone[i].definition_id >>]

\* the tick that drops expired instances and leaves their hooks registered
effects_tick_round_KeepHooks(effects, reg) ==
    LET ticked == [i \in 1..Len(effects) |-> TickDecrement(effects[i])]
        gone == SelectSeq(effects, TickExpires)
    IN  [active_effects |-> SelectSeq(ticked, LAMBDA inst : ~(Ticks(inst) /\ inst.remaining_rounds <= 0)),
         reg |-> reg,
         expired |-> Expired(gone)]

\* a tick that counts down and keeps the instances that reached zero
effects_tick_round_KeepExpired(effects, reg) ==
    [active_effects |-> [i \in 1..Len(effects) |-> TickDecrement(effects[i])],
     reg |-> reg,
     expired |-> << >>]

\* EffectsEngine.tick_round: the kept instances, the registry, the expired
effects_tick_round(effects, reg) ==
    LET ticked == [i \in 1..Len(effects) |-> TickDecrement(effects[i])]
        gone == SelectSeq(effects, TickExpires)
        goneIds == [i \in 1..Len(gone) |-> gone[i].instance_id]
    IN  [active_effects |-> SelectSeq(ticked, LAMBDA inst : ~(Ticks(inst) /\ inst.remaining_rounds <= 0)),
         reg |-> unregister_all(reg, goneIds),
         expired |-> Expired(gone)]

\* ConditionsEngine.tick_round (the round counter is advanced by the caller
\* of this operator in the same step)
conditions_tick_round(conditions) ==
    LET ticked == [i \in 1..Len(conditions) |-> TickDecrement(conditions[i])]
        gone == SelectSeq(conditions, TickExpires)
    IN  [active_conditions |-> SelectSeq(ticked, LAMBDA inst : ~(Ticks(inst) /\ inst.remaining_rounds <= 0)),
         expired |-> Expired(gone)]

\* ZoneEngine.update_suppression_for_entity
update_suppression_for_entity(effects, under_am) ==
    [i \in 1..Len(effects) |->
        LET inst == effects[i]
        IN  IF inst.abilityType \in {"Su", "Sp", "Spell"}
            THEN IF under_am /\ ~inst.suppressed THEN [inst EXCEPT !.suppressed = TRUE]
                 ELSE IF ~under_am /\ inst.suppressed THEN [inst EXCEPT !.suppressed = FALSE]
                 ELSE inst
            ELSE [inst EXCEPT !.suppressed = FALSE]]

\* the zones of the content index; suppression is the "kind" entry of the
\* suppression dict, NoneStr when the definition declares none
ZoneIds == {"zone.fog", "zone.antimagic", "zone.sanctuary"}

ZoneDefs ==
    [z \in ZoneIds |->
       CASE z = "zone.fog" ->
              [duration |-> DurationSpec("rounds", 2), suppression |-> NoneStr,
               hooks |-> << HookDef("incoming.effect", 3, "incoming.effect", "modify") >>]
         [] z = "zone.sanctuary" ->
              [duration |-> DurationSpec("rounds", 2), suppression |-> NoneStr,
               hooks |-> << HookDef("incoming.effect", 1, "incoming.effect", "block") >>]
         [] OTHER ->
              [duration |-> DurationSpec("rounds", 2), suppression |-> "antimagic",
               hooks |-> << >>]]

\* ZoneEngine.is_entity_under_antimagic reads zd.suppression.kind of the
\* first stored zone whose definition declares a suppression; suppression
\* is a dict, which has no attribute "kind", so that read raises
\* AttributeError
antimagic_raises(zones) ==
    \E i \in DOMAIN zones :
        /\ zones[i].definition_id \in ZoneIds
        /\ ZoneDefs[zones[i].definition_id].suppression # NoneStr

\* ZoneEngine.is_entity_under_antimagic when it returns: the only return
\* of True lies behind the read that raises
is_entity_under_antimagic == FALSE

ZoneInstance(instance_id, definition_id, duration_type, remaining_rounds) ==
    [instance_id |-> instance_id, definition_id |-> definition_id,
     duration_type |-> duration_type, remaining_rounds |-> remaining_rounds, active |-> TRUE]

\* ZoneEngine._snapshot_duration
zone_snapshot_duration(ds) ==
    IF ds = NoDuration THEN << "permanent", NoneInt >>
    ELSE IF ds.type = "rounds"
         THEN IF ds.value # NoneInt THEN << "rounds", Max2(0, ds.value) >>
              ELSE << "rounds", NoneInt >>
    ELSE << ds.type, NoneInt >>

ZoneResult(zones, effects, reg, nid, ret) ==
    [active_zones |-> zones, active_effects |-> effects, reg |-> reg, next_id |-> nid,
     ret |-> ret]

\* a creation that stores an instance for whatever id it is given
zones_create_from_definition_Anyway(zones, effects, reg, nid, zone_id) ==
    ZoneResult(Append(zones, ZoneInstance(nid, zone_id, "permanent", NoneInt)),
               effects, reg, nid + 1, "created")

\* ZoneEngine.create_from_definition(zone_id, player)
zones_create_from_definition(zones, effects, reg, nid, zone_id) ==
    IF zone_id \notin ZoneIds THEN ZoneResult(zones, effects, reg, nid, "unknown")
    ELSE IF antimagic_raises(Append(zones, ZoneInstance(nid, zone_id, "", NoneInt)))
    THEN ZoneResult(Append(zones,
                           ZoneInstance(nid, zone_id,
                                        zone_snapshot_duration(ZoneDefs[zone_id].duration)[1],
                                        zone_snapshot_duration(ZoneDefs[zone_id].duration)[2])),
                    effects,
                    register_for_effect(reg, ZoneDefs[zone_id].hooks, nid, 1),
                    nid + 1, "AttributeError")
    ELSE ZoneResult(Append(zones,
                           ZoneInstance(nid, zone_id,
                                        zone_snapshot_duration(ZoneDefs[zone_id].duration)[1],
                                        zone_snapshot_duration(ZoneDefs[zone_id].duration)[2])),
                    update_suppression_for_entity(effects, is_entity_under_antimagic),
                    register_for_effect(reg, ZoneDefs[zone_id].hooks, nid, 1),
                    nid + 1, "created")

\* the stored zone is one that destroy was asked to remove
destroy_match(zi, zone_definition_id, zone_instance_id) ==
    \/ zone_instance_id # NoneInt /\ zi.instance_id = zone_instance_id
    \/ zone_definition_id # NoneStr /\ zi.definition_id = zone_definition_id

\* ZoneEngine.destroy(player, zone_definition_id=..., zone_instance_id=...)
zones_destroy(zones, effects, reg, zone_definition_id, zone_instance_id) ==
    LET gone == SelectSeq(zones, LAMBDA zi :
                              destroy_match(zi, zone_definition_id, zone_instance_id))
        keep == SelectSeq(zones, LAMBDA zi :
                              ~destroy_match(zi, zone_definition_id, zone_instance_id))
        reg2 == unregister_all(reg, [i \in 1..Len(gone) |-> gone[i].instance_id])
    IN  IF antimagic_raises(keep)
        THEN [active_zones |-> keep, active_effects |-> effects, reg |-> reg2,
              ret |-> "AttributeError"]
        ELSE [active_zones |-> keep,
              active_effects |-> update_suppression_for_entity(effects,
                                                               is_entity_under_antimagic),
              reg |-> reg2, ret |-> "destroyed"]

\* ZoneEngine.tick_round: the kept zones, the registry, the expired
zones_tick_round(zones, reg) ==
    LET ticked == [i \in 1..Len(zones) |-> TickDecrement(zones[i])]
        gone == SelectSeq(zones, TickExpires)
        goneIds == [i \in 1..Len(gone) |-> gone[i].instance_id]
        keep == SelectSeq(ticked, LAMBDA zi : ~(Ticks(zi) /\ zi.remaining_rounds <= 0))
    IN  [active_zones |-> keep,
         reg |-> unregister_all(reg, goneIds),
         expired |-> Expired(gone),
         ret |-> IF antimagic_raises(keep) THEN "AttributeError" ELSE ""]

----------------------------------------------------------------------------
(* Conditions: ConditionsEngine.apply / remove                             *)

\* index of the first instance of this definition, 0 when there is none
FirstOfDef(conditions, cond_id) ==
    IF \E i \in DOMAIN conditions : conditions[i].definition_id = cond_id
    THEN CHOOSE i \in DOMAIN conditions :
            /\ conditions[i].definition_id = cond_id
            /\ \A j \in 1..(i - 1) : conditions[j].definition_id # cond_id
    ELSE 0

\* a refresh that overwrites the remaining rounds with the new duration
Refresh_Overwrite(inst, rem_rounds) ==
    IF inst.duration_type = "rounds" /\ rem_rounds # NoneInt
    THEN [inst EXCEPT !.remaining_rounds = rem_rounds]
    ELSE inst

\* the refresh of an existing instance: extend to the greater of old / new
Refresh(inst, rem_rounds) ==
    IF inst.duration_type = "rounds" /\ rem_rounds # NoneInt
       /\ (inst.remaining_rounds = NoneInt \/ rem_rounds > inst.remaining_rounds)
    THEN [inst EXCEPT !.remaining_rounds = rem_rounds]
    ELSE inst

\* ConditionsEngine.apply: the new list, the next fresh id and the log tag
conditions_apply(conditions, nid, cond_id, duration_override, stacks) ==
    IF cond_id \notin ConditionIds
    THEN [active_conditions |-> conditions, next_id |-> nid, log |-> "unknown"]
    ELSE LET cd == ConditionDefs[cond_id]
             snap == condition_snapshot_duration(cd, duration_override)
             i == FirstOfDef(conditions, cond_id)
         IN  IF ~stacks /\ i # 0
             THEN [active_conditions |-> [conditions EXCEPT ![i] = Refresh(@, snap[2])],
                   next_id |-> nid, log |-> "refreshed"]
             ELSE [active_conditions |->
                       Append(conditions,
                              ConditionInstance(nid, cond_id, snap[1], snap[2], cd.tags)),
                   next_id |-> nid + 1, log |-> "applied"]

\* ConditionsEngine.remove(instance_id=...): the new list and the log tag
conditions_remove_instance(conditions, instance_id) ==
    IF \E i \in DOMAIN conditions : conditions[i].instance_id = instance_id
    THEN [active_conditions |-> SelectSeq(conditions, LAMBDA c : c.instance_id # instance_id),
          log |-> "removed"]
    ELSE [active_conditions |-> conditions, log |-> "instance not found"]

\* a detach that reports success whatever it found
effects_detach_AlwaysTrue(effects, instance_id) ==
    [active_effects |-> SelectSeq(effects, LAMBDA e : e.instance_id # instance_id),
     ret |-> "True"]

\* EffectsEngine.detach: the new list and the returned bool
effects_detach(effects, instance_id) ==
    IF \E i \in DOMAIN effects : effects[i].instance_id = instance_id
    THEN [active_effects |-> SelectSeq(effects, LAMBDA e : e.instance_id # instance_id),
          ret |-> "True"]
    ELSE [active_effects |-> effects, ret |-> "False"]

----------------------------------------------------------------------------
(* Resolved stats: ModifiersEngine.collect_for_entity / resolved_stats     *)

\* the player's unmodified numbers (default_cleric_lvl1: Str 14, Dex 12,
\* Con 12, Wis 14, base saves 2/0/2, BAB 0, chain shirt and heavy shield)
PlayerBase ==
    [save_fort |-> 3, save_ref |-> 1, save_will |-> 4,
     attack_melee |-> 2, attack_ranged |-> 1,
     ac_armor_shield |-> 6, ac_dex |-> 1, caster_level |-> 1]

ToEvaluated(mods) ==
    [i \in 1..Len(mods) |->
        EvaluatedMod(mods[i].operator, mods[i].value, mods[i].bonusType, mods[i].sourceKey)]

RECURSIVE FlattenMods(_)
FlattenMods(lists) ==
    IF lists = << >> THEN << >> ELSE Head(lists) \o FlattenMods(Tail(lists))

\* collect_for_entity: the modifiers of the unsuppressed effects, then of the
\* conditions, in collection order
collect_for_entity(effects, conditions) ==
    LET live == SelectSeq(effects, LAMBDA inst : ~inst.suppressed)
    IN  FlattenMods([i \in 1..Len(live) |-> EffectDefs[live[i].definition_id].modifiers])
        \o FlattenMods([i \in 1..Len(conditions) |->
                           ConditionDefs[conditions[i].definition_id].modifiers])

\* all_mods.get(path, []) as evaluated modifiers
ModsAt(all_mods, path) ==
    ToEvaluated(SelectSeq(all_mods, LAMBDA m : m.targetPath = path))

\* the keys of resolved_stats that the gates read
StatKeys ==
    { "ac_total", "ac_touch", "ac_ff", "save_fort", "save_ref", "save_will",
      "attack_melee_bonus", "attack_ranged_bonus" }

\* the AC components resolved_stats builds the AC bases from
AcComponents == {"ac.natural", "ac.deflection", "ac.dodge", "ac.misc"}

\* the modifier path of an entry of resolved_stats
StatPath(key) ==
    CASE key = "ac_total" -> "ac.total"
      [] key = "ac_touch" -> "ac.touch"
      [] key = "ac_ff" -> "ac.flat_footed"
      [] key = "save_fort" -> "save.fort"
      [] key = "save_ref" -> "save.ref"
      [] key = "save_will" -> "save.will"
      [] key = "attack_melee_bonus" -> "attack.melee.bonus"
      [] key = "attack_ranged_bonus" -> "attack.ranged.bonus"

\* the base value of an entry, from the player's numbers and the resolved
\* AC components
StatBase(key, comp) ==
    CASE key = "ac_total" ->
               RAdd(RAdd(RAdd(RAdd(RInt(10 + PlayerBase.ac_armor_shield + PlayerBase.ac_dex),
                                   comp["ac.natural"]), comp["ac.deflection"]),
                         comp["ac.dodge"]), comp["ac.misc"])
      [] key = "ac_touch" ->
               RAdd(RAdd(RAdd(RInt(10 + PlayerBase.ac_dex), comp["ac.deflection"]),
                         comp["ac.dodge"]), comp["ac.misc"])
      [] key = "ac_ff" ->
               RAdd(RAdd(RAdd(RInt(10 + PlayerBase.ac_armor_shield), comp["ac.natural"]),
                         comp["ac.deflection"]), comp["ac.misc"])
      [] key = "save_fort" -> RInt(PlayerBase.save_fort)
      [] key = "save_ref" -> RInt(PlayerBase.save_ref)
      [] key = "save_will" -> RInt(PlayerBase.save_will)
      [] key = "attack_melee_bonus" -> RInt(PlayerBase.attack_melee)
      [] key = "attack_ranged_bonus" -> RInt(PlayerBase.attack_ranged)

\* one entry of resolved_stats: int(round(apply_to_value(base, mods at path)))
resolved_stat(all_mods, key) ==
    LET comp == [suffix \in AcComponents |-> apply_to_value(RInt(0), ModsAt(all_mods, suffix))]
    IN  PyRound(apply_to_value(StatBase(key, comp), ModsAt(all_mods, StatPath(key))))

\* resolved_stats(entity), as a function of the key
resolved_stats(effects, conditions) ==
    LET all_mods == collect_for_entity(effects, conditions)
    IN  [key \in StatKeys |-> resolved_stat(all_mods, key)]

----------------------------------------------------------------------------
(* Gates evaluator: GatesEngine                                            *)

\* the faces the d20 and the d100 show in this model
D20 == {1, 10, 20}
D100 == {50, 51}

\* a roll that is not made
NoRoll == 0

SRResult(checked, passed) == [checked |-> checked, passed |-> passed]
SaveResult(attempted, succeeded, branch) ==
    [attempted |-> attempted, succeeded |-> succeeded, branch |-> branch]
AttackResult(attempted, hit, crit, crit_mult, concealment_miss, miss_rolled, confirm_rolled) ==
    [attempted |-> attempted, hit |-> hit, crit |-> crit, crit_mult |-> crit_mult,
     concealment_miss |-> concealment_miss,
     miss_rolled |-> miss_rolled, confirm_rolled |-> confirm_rolled]

\* sr_gate rolls only when the gate applies, the ability is a spell and
\* the target has spell resistance
sr_rolls(ed, ent) ==
    ed.gates.sr /\ ed.abilityType \in {"Spell", "Sp"} /\ ent.spell_resistance > 0

sr_gate(ed, ent, roll) ==
    IF ~sr_rolls(ed, ent) THEN SRResult(FALSE, TRUE)
    ELSE SRResult(TRUE, roll + PlayerBase.caster_level >= ent.spell_resistance \/ roll = 20)

\* a save gate that only compares the total to the DC
save_gate_TotalOnly(ed, stats, roll) ==
    IF ed.gates.saveBranch = "absent" THEN SaveResult(FALSE, FALSE, "none")
    ELSE LET save_total == CASE ed.gates.saveType = "Fort" -> stats["save_fort"]
                             [] ed.gates.saveType = "Ref" -> stats["save_ref"]
                             [] ed.gates.saveType = "Will" -> stats["save_will"]
                             [] OTHER -> 0
         IN  SaveResult(TRUE, roll + save_total >= ed.gates.saveDC, ed.gates.saveBranch)

\* GatesEngine.save_gate on the d20 face roll
save_gate(ed, stats, roll) ==
    IF ed.gates.saveBranch = "absent" THEN SaveResult(FALSE, FALSE, "none")
    ELSE LET save_total == CASE ed.gates.saveType = "Fort" -> stats["save_fort"]
                             [] ed.gates.saveType = "Ref" -> stats["save_ref"]
                             [] ed.gates.saveType = "Will" -> stats["save_will"]
                             [] OTHER -> 0
             total == roll + save_total
             succeeded == IF roll = 1 THEN FALSE
                          ELSE (roll = 20) \/ (total >= ed.gates.saveDC)
         IN  SaveResult(TRUE, succeeded, ed.gates.saveBranch)

\* _concealment_pct: 50 when the target carries an "invisible" condition tag
concealment_pct(conditions) ==
    IF \E i \in DOMAIN conditions : "invisible" \in conditions[i].tags THEN 50 ELSE 0

\* an attack gate that misses whenever the total equals the AC
attack_gate_Strict(ed, stats, conditions, roll, miss_roll, confirm_roll) ==
    IF ed.gates.attackMode = "none"
    THEN AttackResult(FALSE, TRUE, FALSE, 1, FALSE, FALSE, FALSE)
    ELSE LET ac_val == CASE ed.gates.acType = "touch" -> stats["ac_touch"]
                         [] ed.gates.acType = "flat-footed" -> stats["ac_ff"]
                         [] OTHER -> stats["ac_total"]
             atk_bonus == IF ed.gates.attackMode \in {"ranged", "ranged_touch", "ray"}
                          THEN stats["attack_ranged_bonus"] ELSE stats["attack_melee_bonus"]
         IN  AttackResult(TRUE, roll # 1 /\ (roll + atk_bonus > ac_val \/ roll = 20),
                          FALSE, 2, FALSE, FALSE, FALSE)

\* an attack gate that rolls a confirmation on every hit
attack_gate_ConfirmAll(ed, stats, conditions, roll, miss_roll, confirm_roll) ==
    IF ed.gates.attackMode = "none"
    THEN AttackResult(FALSE, TRUE, FALSE, 1, FALSE, FALSE, FALSE)
    ELSE LET ac_val == CASE ed.gates.acType = "touch" -> stats["ac_touch"]
                         [] ed.gates.acType = "flat-footed" -> stats["ac_ff"]
                         [] OTHER -> stats["ac_total"]
             atk_bonus == IF ed.gates.attackMode \in {"ranged", "ranged_touch", "ray"}
                          THEN stats["attack_ranged_bonus"] ELSE stats["attack_melee_bonus"]
             total == roll + atk_bonus
             conceal == concealment_pct(conditions)
             hit == (total >= ac_val) \/ (roll = 20)
         IN  IF roll = 1 THEN AttackResult(TRUE, FALSE, FALSE, 2, FALSE, FALSE, FALSE)
             ELSE IF conceal > 0 /\ miss_roll <= conceal
                  THEN AttackResult(TRUE, FALSE, FALSE, 2, TRUE, TRUE, FALSE)
             ELSE IF ~hit THEN AttackResult(TRUE, FALSE, FALSE, 2, FALSE, conceal > 0, FALSE)
             ELSE AttackResult(TRUE, TRUE,
                               confirm_roll + atk_bonus >= ac_val \/ confirm_roll = 20,
                               2, FALSE, conceal > 0, TRUE)

\* GatesEngine.attack_gate on the faces the d20 and the d100 show
attack_gate(ed, stats, conditions, roll, miss_roll, confirm_roll) ==
    IF ed.gates.attackMode = "none"
    THEN AttackResult(FALSE, TRUE, FALSE, 1, FALSE, FALSE, FALSE)
    ELSE LET ac_val == CASE ed.gates.acType = "touch" -> stats["ac_touch"]
                         [] ed.gates.acType = "flat-footed" -> stats["ac_ff"]
                         [] OTHER -> stats["ac_total"]
             atk_bonus == IF ed.gates.attackMode \in {"ranged", "ranged_touch", "ray"}
                          THEN stats["attack_ranged_bonus"] ELSE stats["attack_melee_bonus"]
             total == roll + atk_bonus
             conceal == concealment_pct(conditions)
             hit == (total >= ac_val) \/ (roll = 20)
         IN  IF roll = 1 THEN AttackResult(TRUE, FALSE, FALSE, 2, FALSE, FALSE, FALSE)
             ELSE IF conceal > 0 /\ miss_roll <= conceal
                  THEN AttackResult(TRUE, FALSE, FALSE, 2, TRUE, TRUE, FALSE)
             ELSE IF ~hit THEN AttackResult(TRUE, FALSE, FALSE, 2, FALSE, conceal > 0, FALSE)
             ELSE IF roll = 20
                  THEN AttackResult(TRUE, TRUE,
                                    confirm_roll + atk_bonus >= ac_val \/ confirm_roll = 20,
                                    2, FALSE, conceal > 0, TRUE)
             ELSE AttackResult(TRUE, TRUE, FALSE, 2, FALSE, conceal > 0, FALSE)

\* the random draws one attack gate makes, in order
AttackDraws(atk) ==
    IF ~atk.attempted THEN << >>
    ELSE << "attack" >> \o (IF atk.miss_rolled THEN << "miss_chance" >> ELSE << >>)
                       \o (IF atk.confirm_rolled THEN << "confirm" >> ELSE << >>)

NoSave == SaveResult(FALSE, FALSE, "none")
NoAttack == AttackResult(FALSE, FALSE, FALSE, 1, FALSE, FALSE, FALSE)

GateOutcome(allowed, sr, save, attack, damage_scale, saved_flag, crit_mult, draws) ==
    [allowed |-> allowed, sr |-> sr, save |-> save, attack |-> attack,
     damage_scale |-> damage_scale, saved_flag |-> saved_flag, crit_mult |-> crit_mult,
     draws |-> draws]

\* a save branch that never stops the effect
allowed_after_save_Always(sv) == TRUE

\* whether the save branch lets the effect go on
allowed_after_save(sv) ==
    IF sv.attempted /\ sv.branch = "negates" THEN ~sv.succeeded ELSE TRUE

\* an evaluate that runs all three gates before looking at any result
evaluate_AllGates(ed, ent, stats, conditions, rolls) ==
    LET sr == sr_gate(ed, ent, rolls.sr)
        sv == save_gate(ed, stats, rolls.save)
        atk == attack_gate(ed, stats, conditions, rolls.attack, rolls.miss, rolls.confirm)
        damage_scale == IF sv.attempted /\ sv.branch = "half" /\ sv.succeeded
                        THEN << 1, 2 >> ELSE RInt(1)
        saved_flag == sv.attempted /\ sv.branch \in {"half", "partial"} /\ sv.succeeded
        draws == (IF sr.checked THEN << "sr" >> ELSE << >>)
                 \o (IF sv.attempted THEN << "save" >> ELSE << >>) \o AttackDraws(atk)
        allowed == sr.passed /\ allowed_after_save(sv) /\ ~(atk.attempted /\ ~atk.hit)
    IN  GateOutcome(allowed, sr, sv, atk, damage_scale, saved_flag,
                    IF allowed /\ atk.crit THEN atk.crit_mult ELSE 1, draws)

\* GatesEngine.evaluate: SR, then save, then attack; rolls is the record of
\* the values the random source would hand out at each draw
evaluate(ed, ent, stats, conditions, rolls) ==
    LET sr == sr_gate(ed, ent, rolls.sr)
        srDraw == IF sr.checked THEN << "sr" >> ELSE << >>
        sv == save_gate(ed, stats, rolls.save)
        svDraw == IF sv.attempted THEN << "save" >> ELSE << >>
        damage_scale == IF sv.attempted /\ sv.branch = "half" /\ sv.succeeded
                        THEN << 1, 2 >> ELSE RInt(1)
        saved_flag == sv.attempted /\ sv.branch \in {"half", "partial"} /\ sv.succeeded
        atk == attack_gate(ed, stats, conditions, rolls.attack, rolls.miss, rolls.confirm)
    IN  IF ~sr.passed
        THEN GateOutcome(FALSE, sr, NoSave, NoAttack, RInt(1), FALSE, 1, srDraw)
        ELSE IF ~allowed_after_save(sv)
        THEN GateOutcome(FALSE, sr, sv, NoAttack, damage_scale, saved_flag, 1, srDraw \o svDraw)
        ELSE IF atk.attempted /\ ~atk.hit
        THEN GateOutcome(FALSE, sr, sv, atk, damage_scale, saved_flag, 1,
                         srDraw \o svDraw \o AttackDraws(atk))
        ELSE GateOutcome(TRUE, sr, sv, atk, damage_scale, saved_flag,
                         IF atk.crit THEN atk.crit_mult ELSE 1,
                         srDraw \o svDraw \o AttackDraws(atk))

----------------------------------------------------------------------------
(* Resources: ResourceEngine.grant_temp_hp                                 *)

\* ResourceRefresh; increment_by holds the value its expression has on the
\* owner (eval_for_actor), a rational
ResourceRefresh(cadence, behavior, increment_by) ==
    [cadence |-> cadence, behavior |-> behavior, increment_by |-> increment_by]

\* refresh = None
NoRefresh == ResourceRefresh(NoneStr, NoneStr, RInt(0))

ResourceState(key, definition_id, owner_entity_id, owner_effect_instance_id, current, max_computed, absorbTypes, absorbPerHit) ==
    [key |-> key, definition_id |-> definition_id, owner_entity_id |-> owner_entity_id,
     owner_effect_instance_id |-> owner_effect_instance_id, current |-> current,
     max_computed |-> max_computed, absorbTypes |-> absorbTypes, absorbPerHit |-> absorbPerHit,
     refresh |-> NoRefresh, freezeOnAttach |-> FALSE]

\* _owner_key for the effect-instance scope
effect_owner_key(effect_instance_id) ==
    IF effect_instance_id # NoneInt THEN << "effect", effect_instance_id >>
    ELSE << "misc", NoneInt >>

\* grant_temp_hp when content has no "res.temp_hp": an ad-hoc pool owned by
\* the effect instance, without an absorption policy
grant_temp_hp(res, amount, effect_instance_id) ==
    Append(res, [ResourceState(effect_owner_key(effect_instance_id), NoneStr, PLAYER,
                               effect_instance_id, Max2(0, amount), Max2(0, amount),
                               {}, NoneInt) EXCEPT !.freezeOnAttach = TRUE])

\* int(x) of a number: truncation toward zero
PyInt(r) == IF r[1] >= 0 THEN r[1] \div r[2] ELSE 0 - ((0 - r[1]) \div r[2])

\* ResourceDefinition: capacity and initial_current hold the value their
\* expression has on the owner; cap is NoneInt and initial_current is
\* NoInitial when absent
ResourceDefinition(capacity, cap, initial_current, refresh) ==
    [capacity |-> capacity, cap |-> cap, initial_current |-> initial_current,
     refresh |-> refresh, scope |-> "entity", freezeOnAttach |-> FALSE]

NoInitial == << 0, 0 >>

\* the resources of the content index (a level 5 owner)
ResourceIds == {"res.fixed", "res.capped", "res.reset", "res.increment", "res.daily"}

ResourceDefs ==
    [r \in ResourceIds |->
       CASE r = "res.fixed" -> ResourceDefinition(RInt(10), NoneInt, NoInitial, NoRefresh)
         [] r = "res.capped" -> ResourceDefinition(RInt(50), 20, NoInitial, NoRefresh)
         [] r = "res.reset" ->
              ResourceDefinition(RInt(10), NoneInt, RInt(5),
                                 ResourceRefresh("per_round", "reset_to_max", RInt(0)))
         [] r = "res.increment" ->
              ResourceDefinition(RInt(10), NoneInt, NoInitial,
                                 ResourceRefresh("per_round", "increment_by", << 5, 2 >>))
         [] OTHER ->
              ResourceDefinition(RInt(10), NoneInt, NoInitial,
                                 ResourceRefresh("per_day", "reset_to_max", RInt(0)))]

\* _owner_key for the entity scope
entity_owner_key(entity_id) ==
    IF entity_id # NoneStr THEN << "entity", entity_id >> ELSE << "misc", NoneInt >>

\* _compute_capacity
compute_capacity(rd) ==
    Max2(0, IF rd.cap # NoneInt THEN Min2(PyInt(rd.capacity), rd.cap) ELSE PyInt(rd.capacity))

\* rd.capacity is a CapacitySpec, a pydantic model: it has no attribute
\* "get", so rd.capacity.get("computeAt", "attach") raises AttributeError
capacity_has_get == FALSE

\* create_from_definition from the capacity step on: the pool it stores.
\* initial_current is NoneInt when the call passes none.
created_state(rd, def_id, owner_entity_id, initial_current) ==
    LET max_computed == IF owner_entity_id = PLAYER THEN compute_capacity(rd) ELSE 0
        current == IF initial_current # NoneInt THEN initial_current
                   ELSE IF rd.initial_current # NoInitial /\ owner_entity_id = PLAYER
                        THEN Max2(0, PyInt(rd.initial_current))
                   ELSE max_computed
    IN  [ResourceState(entity_owner_key(owner_entity_id), def_id, owner_entity_id,
                       NoneInt, current, max_computed, {}, NoneInt)
            EXCEPT !.refresh = rd.refresh, !.freezeOnAttach = rd.freezeOnAttach]

\* ResourceEngine.create_from_definition(def_id, owner_scope="entity", ...)
create_from_definition(res, def_id, owner_entity_id, initial_current) ==
    IF def_id \notin ResourceIds THEN [resources |-> res, ret |-> "unknown"]
    ELSE IF ~capacity_has_get THEN [resources |-> res, ret |-> "AttributeError"]
    ELSE [resources |-> Append(res, created_state(ResourceDefs[def_id], def_id,
                                                  owner_entity_id, initial_current)),
          ret |-> "created"]

\* the pools spend looks at, in visiting order: the owner's entity bucket,
\* then every effect bucket
spend_order(res, owner_entity_id, resource_id) ==
    SelectSeq([i \in 1..Len(res) |-> i],
              LAMBDA i : res[i].key = << "entity", owner_entity_id >>
                         /\ res[i].definition_id = resource_id)
    \o SelectSeq(EffectKeyOrder(res, 1),
                 LAMBDA i : res[i].owner_entity_id = owner_entity_id
                            /\ res[i].definition_id = resource_id)

\* a spend that does not look at what the pool holds
spend_Unchecked(res, owner_entity_id, resource_id, amount) ==
    LET order == spend_order(res, owner_entity_id, resource_id)
    IN  IF order = << >> THEN [resources |-> res, ret |-> FALSE]
        ELSE [resources |-> [res EXCEPT ![order[1]].current = @ - amount], ret |-> TRUE]

\* ResourceEngine.spend
spend(res, owner_entity_id, resource_id, amount) ==
    LET can == SelectSeq(spend_order(res, owner_entity_id, resource_id),
                         LAMBDA i : res[i].current >= amount)
    IN  IF can = << >> THEN [resources |-> res, ret |-> FALSE]
        ELSE [resources |-> [res EXCEPT ![can[1]].current = @ - amount], ret |-> TRUE]

\* the first pool of the definition in the owner's entity bucket, 0 if none
entity_pool(res, owner_entity_id, resource_id) ==
    LET found == SelectSeq([i \in 1..Len(res) |-> i],
                           LAMBDA i : res[i].key = << "entity", owner_entity_id >>
                                      /\ res[i].definition_id = resource_id)
    IN  IF found = << >> THEN 0 ELSE found[1]

\* ResourceEngine.restore; amount is NoneInt when the call passes none
restore(res, owner_entity_id, resource_id, amount, to_max) ==
    LET i == entity_pool(res, owner_entity_id, resource_id)
    IN  IF i = 0 THEN [resources |-> res, ret |-> FALSE]
        ELSE IF to_max
        THEN [resources |-> [res EXCEPT ![i].current = res[i].max_computed], ret |-> TRUE]
        ELSE IF amount # NoneInt
        THEN [resources |-> [res EXCEPT ![i].current = Min2(res[i].max_computed, @ + amount)],
              ret |-> TRUE]
        ELSE [resources |-> res, ret |-> TRUE]

\* ResourceEngine.set_current
set_current(res, owner_entity_id, resource_id, current) ==
    LET i == entity_pool(res, owner_entity_id, resource_id)
    IN  IF i = 0 THEN [resources |-> res, ret |-> FALSE]
        ELSE [resources |-> [res EXCEPT ![i].current =
                                Max2(0, Min2(res[i].max_computed, current))],
              ret |-> TRUE]

\* ResourceEngine.recompute_capacity
recompute_capacity(res, owner_entity_id, resource_id) ==
    LET i == entity_pool(res, owner_entity_id, resource_id)
    IN  IF owner_entity_id # PLAYER \/ i = 0 THEN [resources |-> res, ret |-> FALSE]
        ELSE IF res[i].freezeOnAttach \/ resource_id \notin ResourceIds
        THEN [resources |-> res, ret |-> FALSE]
        ELSE [resources |->
                 [res EXCEPT ![i].max_computed = compute_capacity(ResourceDefs[resource_id]),
                             ![i].current =
                                 Min2(@, compute_capacity(ResourceDefs[resource_id]))],
              ret |-> TRUE]

\* a refresh that does not look at the cadence of the pool
refresh_one_AnyCadence(rs) ==
    IF rs.refresh = NoRefresh THEN rs ELSE [rs EXCEPT !.current = rs.max_computed]

\* refresh_cadence("per_round") on one pool
refresh_one(rs) ==
    IF rs.refresh = NoRefresh \/ rs.refresh.cadence # "per_round" THEN rs
    ELSE IF rs.refresh.behavior = "reset_to_max" THEN [rs EXCEPT !.current = rs.max_computed]
    ELSE IF rs.refresh.behavior = "increment_by" /\ rs.owner_entity_id # NoneStr
    THEN [rs EXCEPT !.current =
            Min2(rs.max_computed,
                 @ + Max2(0, IF rs.owner_entity_id = PLAYER
                             THEN PyInt(rs.refresh.increment_by) ELSE 0))]
    ELSE rs

\* ResourceEngine.refresh_cadence
refresh_cadence(res, cadence) ==
    IF cadence # "per_round" THEN res
    ELSE [i \in 1..Len(res) |-> refresh_one(res[i])]

----------------------------------------------------------------------------
(* Operation executor: EffectsEngine.execute_operations                    *)

\* the part of the game state the executor works on
ExecState(ent, conditions, res, nid) ==
    [player |-> ent, active_conditions |-> conditions, resources |-> res,
     next_id |-> nid, ops_run |-> 0, raised |-> FALSE]

\* eval_for_actor on the amount of the operation raises
eval_raises(op) == op.op \in {"damage", "heal_hp", "temp_hp"} /\ op.amount = BadFormula

\* flush_packets: the buffered packets go through the pipeline as one attack
flush_packets(st, buffered) ==
    IF buffered = << >> THEN st
    ELSE LET r == apply_packets(st.player, st.resources, buffered)
         IN  [st EXCEPT !.player = r.player, !.resources = r.resources]

\* a damage operation that buffers its amount as declared
damage_op_packet_Unscaled(op, damage_scale, crit_mult) ==
    DamagePacket(Max2(0, op.amount), op.dkind, op.counts_as_magic, {}, {})

\* the packet a damage operation buffers
damage_op_packet(op, damage_scale, crit_mult) ==
    LET scale == IF damage_scale[1] < 0 THEN RInt(0) ELSE damage_scale
        final == PyRound(RMul(RMul(RInt(op.amount), scale), RInt(Max2(1, crit_mult))))
    IN  DamagePacket(Max2(0, final), op.dkind, op.counts_as_magic, {}, {})

\* one operation other than damage, run on the flushed state f
execute_operation(f, op, parent_instance_id) ==
    CASE op.op = "heal_hp" ->
           IF op.nonlethal_only
           THEN [f EXCEPT !.player.nonlethal_damage = Max2(0, @ - op.amount)]
           ELSE [f EXCEPT !.player.hp_current = Min2(f.player.hp_max, @ + op.amount)]
      [] op.op = "temp_hp" ->
           [f EXCEPT !.resources = grant_temp_hp(@, op.amount, parent_instance_id)]
      [] op.op = "condition.apply" ->
           LET r == conditions_apply(f.active_conditions, f.next_id,
                                     op.id, op.duration, op.stacks)
           IN  [f EXCEPT !.active_conditions = r.active_conditions,
                         !.next_id = r.next_id]
      [] OTHER -> f

\* an executor that commits the buffered damage only at the end of the list
RECURSIVE execute_operations_FlushLast(_, _, _, _, _, _)
execute_operations_FlushLast(st, ops, buffered, parent_instance_id, damage_scale, crit_mult) ==
    IF ops = << >> THEN flush_packets(st, buffered)
    ELSE IF Head(ops).op = "damage"
    THEN execute_operations_FlushLast([st EXCEPT !.ops_run = @ + 1], Tail(ops),
             Append(buffered, damage_op_packet(Head(ops), damage_scale, crit_mult)),
             parent_instance_id, damage_scale, crit_mult)
    ELSE execute_operations_FlushLast(
             execute_operation([st EXCEPT !.ops_run = @ + 1], Head(ops),
                               parent_instance_id),
             Tail(ops), buffered, parent_instance_id, damage_scale, crit_mult)

RECURSIVE execute_operations(_, _, _, _, _, _)
execute_operations(st, ops, buffered, parent_instance_id, damage_scale, crit_mult) ==
    IF ops = << >> THEN flush_packets(st, buffered)
    ELSE IF Head(ops).op = "damage" /\ eval_raises(Head(ops))
    THEN [st EXCEPT !.raised = TRUE]
    ELSE IF eval_raises(Head(ops))
    THEN [flush_packets(st, buffered) EXCEPT !.raised = TRUE]
    ELSE IF Head(ops).op = "damage"
    THEN execute_operations([st EXCEPT !.ops_run = @ + 1], Tail(ops),
             Append(buffered, damage_op_packet(Head(ops), damage_scale, crit_mult)),
             parent_instance_id, damage_scale, crit_mult)
    ELSE execute_operations(
             execute_operation(flush_packets([st EXCEPT !.ops_run = @ + 1], buffered),
                               Head(ops), parent_instance_id),
             Tail(ops), << >>, parent_instance_id, damage_scale, crit_mult)

----------------------------------------------------------------------------
(* Incoming-effect hooks: RuleHooksRegistry.incoming_effect                *)

\* whether the instance owning a hook is a suppressed effect instance
is_parent_suppressed(rh, effects) ==
    \E i \in DOMAIN effects :
        effects[i].instance_id = HookParent(rh) /\ effects[i].suppressed

\* _match on the "event" key: equal, or the event starts with the pattern
match_event(rh, event) == rh.event = event

\* the allow / block decision after walking the bucket in order
RECURSIVE incoming_effect_walk(_, _, _)
incoming_effect_walk(hooks, effects, allow) ==
    IF hooks = << >> THEN allow
    ELSE LET rh == Head(hooks)
         IN  IF is_parent_suppressed(rh, effects) \/ ~match_event(rh, "incoming.effect")
             THEN incoming_effect_walk(Tail(hooks), effects, allow)
             ELSE incoming_effect_walk(Tail(hooks), effects,
                      CASE rh.action = "block" -> FALSE
                        [] rh.action = "allow" -> TRUE
                        [] OTHER -> allow)

incoming_effect(bs, effects) == incoming_effect_walk(bs["incoming.effect"], effects, TRUE)

\* the note a setOutcome action appends reads rh.source_name, which
\* RegisteredHook does not declare: the walk raises AttributeError at the
\* first matching hook that carries a block, allow or suppress action
incoming_effect_raises(bs, effects) ==
    \E i \in DOMAIN bs["incoming.effect"] :
        /\ ~is_parent_suppressed(bs["incoming.effect"][i], effects)
        /\ match_event(bs["incoming.effect"][i], "incoming.effect")
        /\ bs["incoming.effect"][i].action \in {"block", "allow", "suppress"}

----------------------------------------------------------------------------
(* Scheduler hooks and the scheduled queue: scheduler_event, Scheduler     *)

\* Scheduled: when_round and the operations to run
Scheduled(when_round, actions) == [when_round |-> when_round, actions |-> actions]

\* Scheduler.schedule_in_rounds: the entry is due max(1, rounds) rounds
\* after the round counter of the call
schedule_in_rounds(queue, now_round, rounds, actions) ==
    Append(queue, Scheduled(now_round + Max2(1, rounds), actions))

\* _exec_action on a scheduler hook: "schedule" queues the actions, the
\* transform actions do nothing here
exec_action(queue, action, now_round) ==
    IF action = "schedule"
    THEN schedule_in_rounds(queue, now_round, ScheduleAction.delay_rounds,
                            ScheduleAction.actions)
    ELSE queue

\* scheduler_event: every hook of the scheduler bucket, in order, whose
\* parent is not suppressed and whose match.event is the event
RECURSIVE scheduler_event_walk(_, _, _, _, _)
scheduler_event_walk(queue, hooks, effects, event, now_round) ==
    IF hooks = << >> THEN queue
    ELSE LET rh == Head(hooks)
         IN  IF is_parent_suppressed(rh, effects) \/ ~match_event(rh, event)
             THEN scheduler_event_walk(queue, Tail(hooks), effects, event, now_round)
             ELSE scheduler_event_walk(exec_action(queue, rh.action, now_round),
                                       Tail(hooks), effects, event, now_round)

scheduler_event(queue, bs, effects, event, now_round) ==
    scheduler_event_walk(queue, bs["scheduler"], effects, event, now_round)

\* the operations of the entries, entry by entry
RECURSIVE ScheduledOps(_)
ScheduledOps(entries) ==
    IF entries = << >> THEN << >>
    ELSE Head(entries).actions \o ScheduledOps(Tail(entries))

\* a drain that runs the due entries and leaves them in the queue
drain_scheduled_KeepDue(queue, now_round, st) ==
    [queue |-> queue,
     st |-> execute_operations(st,
                ScheduledOps(SelectSeq(queue, LAMBDA q : q.when_round <= now_round)),
                << >>, NoneInt, RInt(1), 1)]

\* Scheduler._drain_scheduled: the entries due at the round counter leave
\* the queue and their operations run, one call of the executor each
drain_scheduled(queue, now_round, st) ==
    LET due == SelectSeq(queue, LAMBDA q : q.when_round <= now_round)
        keep == SelectSeq(queue, LAMBDA q : ~(q.when_round <= now_round))
    IN  [queue |-> keep,
         st |-> execute_operations(st, ScheduledOps(due), << >>, NoneInt, RInt(1), 1)]

----------------------------------------------------------------------------
(* EffectsEngine.attach                                                    *)

Registry(bs, pidx) == [by_scope |-> bs, parent_index |-> pidx]

\* the result of attach: the new state, the gate outcome and what happened
AttachResult(ent, effects, conditions, reg, res, nid, outcome, ret, ops_run) ==
    [player |-> ent, active_effects |-> effects, active_conditions |-> conditions,
     reg |-> reg, resources |-> res, next_id |-> nid,
     outcome |-> outcome, ret |-> ret, ops_run |-> ops_run]

NoOutcome == GateOutcome(TRUE, SRResult(FALSE, TRUE), NoSave, NoAttack, RInt(1), FALSE, 1, << >>)

\* a store step that retains every effect, whatever its duration
attach_store_Retain(ed, effects, reg, nid, effect_id, outcome, snap, st) ==
    AttachResult(st.player,
                 Append(effects, EffectInstance(nid, effect_id, ed.abilityType,
                                                snap[1], snap[2])),
                 st.active_conditions,
                 register_for_effect(reg, ed.ruleHooks, nid, 1),
                 st.resources, st.next_id, outcome, "applied", st.ops_run)

\* attach once the operations ran and left the state st
attach_store(ed, effects, reg, nid, effect_id, outcome, snap, st) ==
    IF st.raised
    THEN AttachResult(st.player, effects, st.active_conditions, reg, st.resources,
                      st.next_id, outcome, "Exception", st.ops_run)
    ELSE IF snap[1] = "instantaneous"
    THEN AttachResult(st.player, effects, st.active_conditions, reg, st.resources,
                      st.next_id, outcome, "applied", st.ops_run)
    ELSE IF antimagic_raises(active_zones)
    THEN AttachResult(st.player,
                      Append(effects, EffectInstance(nid, effect_id, ed.abilityType,
                                                     snap[1], snap[2])),
                      st.active_conditions,
                      register_for_effect(reg, ed.ruleHooks, nid, 1),
                      st.resources, st.next_id, outcome, "AttributeError", st.ops_run)
    ELSE AttachResult(st.player,
                      update_suppression_for_entity(
                          Append(effects, EffectInstance(nid, effect_id, ed.abilityType,
                                                         snap[1], snap[2])),
                          is_entity_under_antimagic),
                      st.active_conditions,
                      register_for_effect(reg, ed.ruleHooks, nid, 1),
                      st.resources, st.next_id, outcome, "attached", st.ops_run)

\* attach once the gates returned outcome
attach_gated(ed, ent, effects, conditions, reg, res, nid, effect_id, outcome) ==
    IF ~outcome.allowed
    THEN AttachResult(ent, effects, conditions, reg, res, nid, outcome, "did not take effect", 0)
    ELSE attach_store(ed, effects, reg, nid, effect_id, outcome,
                      effect_snapshot_duration(ed.duration),
                      execute_operations(ExecState(ent, conditions, res, nid + 1),
                                         ed.operations, << >>, nid,
                                         outcome.damage_scale, outcome.crit_mult))

\* an attach that does not consult the incoming-effect hooks
attach_Unhooked(ent, stats, effects, conditions, reg, res, nid, effect_id, rolls) ==
    IF effect_id \notin EffectIds
    THEN AttachResult(ent, effects, conditions, reg, res, nid, NoOutcome, "unknown", 0)
    ELSE IF EffectDefs[effect_id].abilityType \in {"Su", "Sp", "Spell"}
            /\ antimagic_raises(active_zones)
    THEN AttachResult(ent, effects, conditions, reg, res, nid, NoOutcome, "AttributeError", 0)
    ELSE IF EffectDefs[effect_id].abilityType \in {"Su", "Sp", "Spell"}
            /\ is_entity_under_antimagic
    THEN AttachResult(ent, effects, conditions, reg, res, nid, NoOutcome, "antimagic", 0)
    ELSE attach_gated(EffectDefs[effect_id], ent, effects, conditions, reg, res, nid,
                      effect_id,
                      evaluate(EffectDefs[effect_id], ent, stats, conditions, rolls))

\* an attach that does not ask the zones before it gates
attach_Unzoned(ent, stats, effects, conditions, reg, res, nid, effect_id, rolls) ==
    IF effect_id \notin EffectIds
    THEN AttachResult(ent, effects, conditions, reg, res, nid, NoOutcome, "unknown", 0)
    ELSE IF incoming_effect_raises(reg.by_scope, effects)
    THEN AttachResult(ent, effects, conditions, reg, res, nid, NoOutcome, "AttributeError", 0)
    ELSE IF ~incoming_effect(reg.by_scope, effects)
    THEN AttachResult(ent, effects, conditions, reg, res, nid, NoOutcome, "blocked", 0)
    ELSE attach_gated(EffectDefs[effect_id], ent, effects, conditions, reg, res, nid,
                      effect_id,
                      evaluate(EffectDefs[effect_id], ent, stats, conditions, rolls))

\* EffectsEngine.attach(effect_id, player, player); the zones are those of
\* the state the attach starts in
attach(ent, stats, effects, conditions, reg, res, nid, effect_id, rolls) ==
    IF effect_id \notin EffectIds
    THEN AttachResult(ent, effects, conditions, reg, res, nid, NoOutcome, "unknown", 0)
    ELSE IF EffectDefs[effect_id].abilityType \in {"Su", "Sp", "Spell"}
            /\ antimagic_raises(active_zones)
    THEN AttachResult(ent, effects, conditions, reg, res, nid, NoOutcome, "AttributeError", 0)
    ELSE IF EffectDefs[effect_id].abilityType \in {"Su", "Sp", "Spell"}
            /\ is_entity_under_antimagic
    THEN AttachResult(ent, effects, conditions, reg, res, nid, NoOutcome, "antimagic", 0)
    ELSE IF incoming_effect_raises(reg.by_scope, effects)
    THEN AttachResult(ent, effects, conditions, reg, res, nid, NoOutcome, "AttributeError", 0)
    ELSE IF ~incoming_effect(reg.by_scope, effects)
    THEN AttachResult(ent, effects, conditions, reg, res, nid, NoOutcome, "blocked", 0)
    ELSE attach_gated(EffectDefs[effect_id], ent, effects, conditions, reg, res, nid,
                      effect_id,
                      evaluate(EffectDefs[effect_id], ent, stats, conditions, rolls))

----------------------------------------------------------------------------
(* The game: initial state and host operations                             *)

DamageKinds ==
    PhysicalKinds \cup {"fire", "cold", "acid", "electricity", "sonic", "force",
                        "negative", "positive", "nonlethal", "bleed", "typeless"}

NoResist == [k \in DamageKinds |-> 0]
NoVulnerability == [k \in DamageKinds |-> RInt(1)]

\* default_cleric_lvl1 with the defence fields the pipeline reads
Entity(hp, dr, energy_resist, vulnerabilities, immunities, spell_resistance) ==
    [hp_current |-> hp, hp_max |-> 9, nonlethal_damage |-> 0, dr |-> dr,
     energy_resist |-> energy_resist, vulnerabilities |-> vulnerabilities,
     immunities |-> immunities, spell_resistance |-> spell_resistance]

Roll(sr, save, attack, miss, confirm) ==
    [sr |-> sr, save |-> save, attack |-> attack, miss |-> miss, confirm |-> confirm]

NoRolls == Roll(NoRoll, NoRoll, NoRoll, NoRoll, NoRoll)

\* the record of the last call
Call(op, arg, ret, outcome, ops_run, expired) ==
    [op |-> op, arg |-> arg, ret |-> ret, outcome |-> outcome, ops_run |-> ops_run,
     expired |-> expired]

EmptyRegistry == [sc \in HookScopes |-> << >>]

Init ==
    /\ player \in { Entity(9, << >>, NoResist, NoVulnerability, {}, sr) : sr \in {0, 15} }
    /\ active_effects = << >>
    /\ active_conditions = << >>
    /\ by_scope = EmptyRegistry
    /\ parent_index = << >>
    /\ resources = << >>
    /\ active_zones = << >>
    /\ sched_queue = << >>
    /\ save_file = << >>
    /\ sched_round = NoneInt
    /\ rng = << >>
    /\ twin = << >>
    /\ round_counter = 0
    /\ next_id = 1
    /\ last = Call("init", << >>, "", NoOutcome, 0, << >>)

\* the game state attach leaves, and the record of the call
AttachStep(r, effect_id) ==
    /\ r.next_id <= MaxInst + 1
    /\ player' = r.player
    /\ active_effects' = r.active_effects
    /\ active_conditions' = r.active_conditions
    /\ by_scope' = r.reg.by_scope
    /\ parent_index' = r.reg.parent_index
    /\ resources' = r.resources
    /\ next_id' = r.next_id
    /\ last' = Call("attach", << effect_id >>, r.ret, r.outcome, r.ops_run, << >>)
    /\ UNCHANGED << active_zones, sched_queue, round_counter, save_file, sched_round >>

\* attach on dice given from outside the random source
Attached(r, effect_id) == AttachStep(r, effect_id) /\ UNCHANGED << rng, twin >>

\* "cast <effect_id>": EffectsEngine.attach(effect_id, player, player)
Cast(effect_id) ==
    LET ed == EffectDefs[effect_id]
        stats == resolved_stats(active_effects, active_conditions)
    IN  \E r1 \in (IF sr_rolls(ed, player) THEN D20 ELSE {NoRoll}) :
        LET sr == sr_gate(ed, player, r1) IN
        \E r2 \in (IF sr.passed /\ ed.gates.saveBranch # "absent" THEN D20 ELSE {NoRoll}) :
        LET sv == save_gate(ed, stats, r2) IN
        \E r3 \in (IF sr.passed /\ allowed_after_save(sv) /\ ed.gates.attackMode # "none"
                   THEN D20 ELSE {NoRoll}) :
        \E r4 \in (IF r3 \notin {NoRoll, 1} /\ concealment_pct(active_conditions) > 0
                   THEN D100 ELSE {NoRoll}) :
        \E r5 \in (IF r3 = 20 /\ ~(r4 # NoRoll /\ r4 <= concealment_pct(active_conditions))
                   THEN D20 ELSE {NoRoll}) :
        Attached(attach(player, stats, active_effects, active_conditions,
                        Registry(by_scope, parent_index), resources, next_id,
                        effect_id, Roll(r1, r2, r3, r4, r5)),
                 effect_id)

\* "cast" with an id that content does not hold
CastUnknown ==
    Attached(attach(player, resolved_stats(active_effects, active_conditions),
                    active_effects, active_conditions,
                    Registry(by_scope, parent_index), resources, next_id,
                    "fx.unknown", NoRolls),
             "fx.unknown")

\* the round counter the Scheduler reads: that of the state it is bound to
scheduler_round(bound_round, live_round) ==
    IF bound_round = NoneInt THEN live_round ELSE bound_round

\* the effect instances after the zone tick of "next"
next_effects(e, z) ==
    IF z.ret = "AttributeError" THEN e.active_effects
    ELSE update_suppression_for_entity(e.active_effects, is_entity_under_antimagic)

\* the scheduled queue after the two scheduler events of "next": the
\* start-of-turn hooks fire on the registry and the effects of before the
\* ticks, the end-of-turn hooks on those the ticks leave
next_scheduled(queue, bs, effects, e, z, start_round, end_round) ==
    IF z.ret = "AttributeError"
    THEN scheduler_event(queue, bs, effects, "startOfTurn", start_round)
    ELSE scheduler_event(scheduler_event(queue, bs, effects, "startOfTurn", start_round),
                         z.reg.by_scope, next_effects(e, z), "endOfTurn", end_round)

\* the game state a round advance leaves
AdvanceBody(c, e, z) ==
    /\ round_counter' = round_counter + 1
    /\ active_conditions' = c.active_conditions
    /\ active_effects' = next_effects(e, z)
    /\ resources' = refresh_cadence(resources, "per_round")
    /\ active_zones' = z.active_zones
    /\ by_scope' = z.reg.by_scope
    /\ parent_index' = z.reg.parent_index
    /\ sched_queue' = next_scheduled(sched_queue, by_scope, active_effects, e, z,
                                     scheduler_round(sched_round, round_counter),
                                     scheduler_round(sched_round, round_counter + 1))
    /\ last' = Call("next", << >>, z.ret, NoOutcome, 0, c.expired \o e.expired \o z.expired)
    /\ UNCHANGED << player, next_id, save_file, sched_round >>

\* the advances of the bounded game stop at MaxRounds
AdvanceStep(c, e, z) == round_counter < MaxRounds /\ AdvanceBody(c, e, z)

Advanced_to(c, e, z) == AdvanceStep(c, e, z) /\ UNCHANGED << rng, twin >>

\* "next": start-of-turn hooks, condition tick (which advances the round
\* counter), effect tick, resource refresh, zone tick, end-of-turn hooks;
\* an exception of the zone tick ends the handler before the last phase.
AdvanceRound ==
    Advanced_to(conditions_tick_round(active_conditions),
                effects_tick_round(active_effects, Registry(by_scope, parent_index)),
                zones_tick_round(active_zones,
                                 effects_tick_round(active_effects,
                                                    Registry(by_scope, parent_index)).reg))

\* EffectsEngine.detach(instance_id, player)
Detach(instance_id) ==
    LET r == effects_detach(active_effects, instance_id)
    IN  /\ active_effects' = r.active_effects
        /\ last' = Call("detach", << instance_id >>, r.ret, NoOutcome, 0, << >>)
        /\ UNCHANGED << player, active_conditions, by_scope, parent_index, resources,
                        active_zones, sched_queue, round_counter, next_id,
                    save_file, sched_round, rng, twin >>

\* ConditionsEngine.apply(cond_id, player, player, duration_override, stacks)
ApplyCondition(cond_id, duration_override, stacks) ==
    LET r == conditions_apply(active_conditions, next_id, cond_id, duration_override, stacks)
    IN  /\ r.next_id <= MaxInst + 1
        /\ active_conditions' = r.active_conditions
        /\ next_id' = r.next_id
        /\ last' = Call("condition.apply", << cond_id, duration_override, stacks >>, r.log,
                        NoOutcome, 0, << >>)
        /\ UNCHANGED << player, active_effects, by_scope, parent_index, resources,
                        active_zones, sched_queue, round_counter,
                    save_file, sched_round, rng, twin >>

\* ConditionsEngine.remove(instance_id=..., target=player)
RemoveCondition(instance_id) ==
    LET r == conditions_remove_instance(active_conditions, instance_id)
    IN  /\ active_conditions' = r.active_conditions
        /\ last' = Call("condition.remove", << instance_id >>, r.log, NoOutcome, 0, << >>)
        /\ UNCHANGED << player, active_effects, by_scope, parent_index, resources,
                        active_zones, sched_queue, round_counter, next_id,
                    save_file, sched_round, rng, twin >>

Next ==
    \/ \E effect_id \in EffectIds : Cast(effect_id)
    \/ CastUnknown
    \/ AdvanceRound
    \/ \E instance_id \in 1..MaxInst : Detach(instance_id)
    \/ \E cond_id \in ConditionIds, d \in DurationOverrides, stacks \in BOOLEAN :
          ApplyCondition(cond_id, d, stacks)
    \/ \E instance_id \in 1..MaxInst : RemoveCondition(instance_id)

Spec == Init /\ [][Next]_vars

\* the same host operations when no caller requests stacking
NextNoStack ==
    \/ \E effect_id \in EffectIds : Cast(effect_id)
    \/ CastUnknown
    \/ AdvanceRound
    \/ \E instance_id \in 1..MaxInst : Detach(instance_id)
    \/ \E cond_id \in ConditionIds, d \in DurationOverrides : ApplyCondition(cond_id, d, FALSE)
    \/ \E instance_id \in 1..MaxInst : RemoveCondition(instance_id)

SpecNoStack == Init /\ [][NextNoStack]_vars

----------------------------------------------------------------------------
(* Properties of durations, detach and gates                               *)

Ids(insts) == { insts[i].instance_id : i \in DOMAIN insts }

InstanceOf(insts, id) == insts[CHOOSE i \in DOMAIN insts : insts[i].instance_id = id]

\* a stored instance that counts rounds and has at least one left
Counted(inst) == inst.duration_type = "rounds" /\ inst.remaining_rounds >= 1

\* this step is one round advance
Advanced == round_counter' = round_counter + 1

\* every counted instance loses exactly one round, and leaves at 0
TickLowersByOne(before, after) ==
    \A i \in DOMAIN before :
        Counted(before[i]) =>
            IF before[i].remaining_rounds = 1
            THEN before[i].instance_id \notin Ids(after)
            ELSE /\ before[i].instance_id \in Ids(after)
                 /\ InstanceOf(after, before[i].instance_id).remaining_rounds
                        = before[i].remaining_rounds - 1

\* every counted instance that stays stored keeps its remaining rounds
RemainingKept(before, after) ==
    \A i \in DOMAIN before :
        (Counted(before[i]) /\ before[i].instance_id \in Ids(after)) =>
            InstanceOf(after, before[i].instance_id).remaining_rounds
                = before[i].remaining_rounds

\* the effect definition runs a condition.apply of this condition
AppliesCondition(effect_id, cond_id) ==
    /\ effect_id \in EffectIds
    /\ \E k \in DOMAIN EffectDefs[effect_id].operations :
          /\ EffectDefs[effect_id].operations[k].op = "condition.apply"
          /\ EffectDefs[effect_id].operations[k].id = cond_id

\* the call of this step re-applied the condition without stacking
Reapplied(call, cond_id) ==
    \/ call.op = "condition.apply" /\ call.arg[1] = cond_id /\ call.ret = "refreshed"
    \/ call.op = "attach" /\ call.ops_run > 0 /\ AppliesCondition(call.arg[1], cond_id)

\* a counted condition that stays stored never loses rounds outside a tick,
\* and gains rounds only by a re-application of its definition
RemainingRaisedOnlyByReapply(before, after, call) ==
    \A i \in DOMAIN before :
        (Counted(before[i]) /\ before[i].instance_id \in Ids(after)) =>
            LET r2 == InstanceOf(after, before[i].instance_id).remaining_rounds
            IN  /\ r2 >= before[i].remaining_rounds
                /\ r2 > before[i].remaining_rounds => Reapplied(call, before[i].definition_id)

\* C1 as stated: every stored effect or condition instance with duration
\* type rounds and remaining_rounds >= 1 loses exactly 1 round in each round
\* advance and is removed in the advance where it reaches 0, and no other
\* step changes its remaining_rounds.
C1_AsStated ==
    [][IF Advanced
       THEN /\ TickLowersByOne(active_effects, active_effects')
            /\ TickLowersByOne(active_conditions, active_conditions')
       ELSE /\ RemainingKept(active_effects, active_effects')
            /\ RemainingKept(active_conditions, active_conditions')]_vars

\* C1 amended: every stored effect or condition instance with duration type
\* rounds and remaining_rounds >= 1 loses exactly 1 round in each round
\* advance and is removed in the advance where it reaches 0; outside an
\* advance an effect instance's remaining_rounds never changes, and a
\* condition instance's remaining_rounds changes only when its definition
\* is re-applied without stacking, which can only raise it.
C1_DurationMonotone ==
    [][IF Advanced
       THEN /\ TickLowersByOne(active_effects, active_effects')
            /\ TickLowersByOne(active_conditions, active_conditions')
       ELSE /\ RemainingKept(active_effects, active_effects')
            /\ RemainingRaisedOnlyByReapply(active_conditions, active_conditions', last')]_vars

\* a round advance that lowered a condition to 1 round and expired an effect
C1_Witness ==
    /\ last.op = "next"
    /\ \E i \in DOMAIN active_conditions :
          active_conditions[i].duration_type = "rounds"
          /\ active_conditions[i].remaining_rounds = 1
    /\ \E j \in DOMAIN last.expired : last.expired[j][2] \in EffectIds

\* the effect instances a step removed
RemovedEffects == Ids(active_effects) \ Ids(active_effects')

\* C2: after every per-round tick no effect instance with duration type
\* rounds and remaining_rounds <= 0 is still stored, and the hook registry
\* holds no hook owned by an instance removed in that tick.
C2_ExpiryReleasesHooks ==
    [][Advanced =>
          /\ \A i \in DOMAIN active_effects' :
                ~(/\ active_effects'[i].duration_type = "rounds"
                  /\ active_effects'[i].remaining_rounds # NoneInt
                  /\ active_effects'[i].remaining_rounds <= 0)
          /\ \A h \in AllHooks(by_scope') : HookParent(h) \notin RemovedEffects
          /\ \A k \in DOMAIN parent_index' : parent_index'[k].parent \notin RemovedEffects]_vars

\* a tick expired an effect whose definition registers hooks, while hooks
\* of another instance stay registered
C2_Witness ==
    /\ last.op = "next"
    /\ \E i \in DOMAIN last.expired :
          /\ last.expired[i][2] \in EffectIds
          /\ EffectDefs[last.expired[i][2]].ruleHooks # << >>
    /\ AllHooks(by_scope) # {}

\* C3: detach, or remove by instance id, with an id that is not stored
\* returns the not-found signal and leaves the active lists, the hook
\* registry, the resources and the actor unchanged.
C3_DetachNotFound ==
    [][/\ (last'.op = "detach" /\ last'.arg[1] \notin Ids(active_effects)) =>
              /\ last'.ret = "False"
              /\ UNCHANGED << player, active_effects, active_conditions, by_scope,
                              parent_index, resources >>
       /\ (last'.op = "condition.remove" /\ last'.arg[1] \notin Ids(active_conditions)) =>
              /\ last'.ret = "instance not found"
              /\ UNCHANGED << player, active_effects, active_conditions, by_scope,
                              parent_index, resources >>]_vars

\* a detach of an id handed out earlier and no longer stored was refused
\* while another effect instance is stored
C3_Witness ==
    /\ last.op = "detach"
    /\ last.ret = "False"
    /\ last.arg[1] < next_id
    /\ last.arg[1] \notin Ids(active_conditions)
    /\ active_effects # << >>

\* the new remaining rounds a re-application asks for, NoneInt when the
\* duration counts no rounds
NewRounds(cond_id, override) ==
    LET ds == IF override # NoDuration THEN override
              ELSE ConditionDefs[cond_id].default_duration
    IN  IF ds # NoDuration /\ ds.type = "rounds" THEN ds.value ELSE NoneInt

AtMostOnePerDefinition(conds) ==
    \A i, j \in DOMAIN conds : conds[i].definition_id = conds[j].definition_id => i = j

\* a direct apply of a definition the target already holds keeps the
\* instances and sets a numeric remaining_rounds to max(old, new)
ReapplyRefreshes ==
    (/\ last'.op = "condition.apply"
     /\ \E i \in DOMAIN active_conditions :
           active_conditions[i].definition_id = last'.arg[1]) =>
        LET i == CHOOSE i \in DOMAIN active_conditions :
                    active_conditions[i].definition_id = last'.arg[1]
            old == active_conditions[i]
            new == NewRounds(last'.arg[1], last'.arg[2])
        IN  /\ last'.ret = "refreshed"
            /\ Len(active_conditions') = Len(active_conditions)
            /\ next_id' = next_id
            /\ active_conditions'[i].instance_id = old.instance_id
            /\ \A j \in DOMAIN active_conditions : j # i =>
                  active_conditions'[j] = active_conditions[j]
            /\ (old.duration_type = "rounds" /\ old.remaining_rounds # NoneInt) =>
                  active_conditions'[i].remaining_rounds =
                      IF new # NoneInt THEN Max2(old.remaining_rounds, new)
                      ELSE old.remaining_rounds

\* C4: while no apply call requests stacking the target holds at most one
\* instance per condition definition; re-applying a condition creates no
\* second instance and sets a numeric remaining_rounds to max(old, new),
\* never shortening it.
C4_RefreshNotStack ==
    [][AtMostOnePerDefinition(active_conditions') /\ ReapplyRefreshes]_vars

\* cond.paralyzed holding 2 rounds was re-applied with its 1-round default
\* and still holds 2 rounds in a single instance
C4_Witness ==
    /\ last.op = "condition.apply"
    /\ last.ret = "refreshed"
    /\ last.arg[1] = "cond.paralyzed"
    /\ last.arg[2] = NoDuration
    /\ Len(active_conditions) = 1
    /\ active_conditions[1].remaining_rounds = 2

\* the save gate ran with branch negates and the save succeeded
NegatedBySave(o) == o.save.attempted /\ o.save.branch = "negates" /\ o.save.succeeded

\* C5: when the save gate has branch negates and the save succeeds, attach
\* runs no operation (hit points, nonlethal damage, resources and
\* conditions unchanged), stores no instance and registers no hook.
C5_NegatesSave ==
    [][(last'.op = "attach" /\ NegatedBySave(last'.outcome)) =>
          /\ last'.ops_run = 0
          /\ UNCHANGED << player, active_effects, active_conditions, by_scope,
                          parent_index, resources, next_id >>]_vars

\* spell.hold was cast and negated by a successful Will save
C5_Witness ==
    /\ last.op = "attach"
    /\ last.arg = << "spell.hold" >>
    /\ NegatedBySave(last.outcome)
    /\ last.ret = "did not take effect"

\* the place of a draw in the gate order
DrawRank(d) ==
    CASE d = "sr" -> 1 [] d = "save" -> 2 [] d = "attack" -> 3
      [] d = "miss_chance" -> 4 [] d = "confirm" -> 5

\* C6: evaluate draws for the SR gate, then the save gate, then the attack
\* gate, and draws nothing after the first gate that fails: a failed SR
\* check is followed by no save or attack roll, a succeeded negates save by
\* no attack roll.
C6_GateOrder ==
    last.op = "attach" =>
        LET o == last.outcome
        IN  /\ \A i, j \in DOMAIN o.draws : i < j => DrawRank(o.draws[i]) < DrawRank(o.draws[j])
            /\ (o.sr.checked /\ ~o.sr.passed) => o.draws = << "sr" >>
            /\ NegatedBySave(o) =>
                  \A i \in DOMAIN o.draws : o.draws[i] \in {"sr", "save"}
            /\ (~o.sr.checked \/ o.sr.passed) =>
                  ("save" \in Range(o.draws)) = o.save.attempted

\* spell.fireball, which has all three gates, stopped at a failed SR check
C6_Witness ==
    /\ last.op = "attach"
    /\ last.arg = << "spell.fireball" >>
    /\ last.outcome.sr.checked
    /\ ~last.outcome.sr.passed
    /\ last.outcome.draws = << "sr" >>

----------------------------------------------------------------------------
(* The stacking resolver on its own: apply_to_value over bounded inputs    *)

MaxMods == 2

\* additive modifiers: typed, dodge, untyped with and without a source key
AdditivePool ==
    { EvaluatedMod(op, v, bt, sk) :
        op \in {"add", "subtract"}, v \in {1, 2},
        bt \in {NoneStr, "morale", "dodge"}, sk \in {NoneStr, "s1", "s2"} }
    \cup { EvaluatedMod("add", 3, "unnamed", NoneStr), EvaluatedMod("add", 1, "unnamed", "s1"),
           EvaluatedMod("add", 3, "", "s1"), EvaluatedMod("add", 1, "", "s2") }

\* the other operators
OtherPool ==
    { EvaluatedMod(op, v, NoneStr, NoneStr) :
        op \in {"set", "multiply", "divide", "min", "max", "cap"}, v \in {2, 3} }
    \cup { EvaluatedMod("replace", 4, NoneStr, NoneStr), EvaluatedMod("clamp", 1, NoneStr, NoneStr),
           EvaluatedMod("divide", 0, NoneStr, NoneStr) }

ModPool == AdditivePool \cup OtherPool

ModLists == UNION { [1..n -> ModPool] : n \in 0..MaxMods }

Bases == {-3, 10}

InitMod ==
    /\ player = Entity(9, << >>, NoResist, NoVulnerability, {}, 0)
    /\ active_effects = << >>
    /\ active_conditions = << >>
    /\ by_scope = EmptyRegistry
    /\ parent_index = << >>
    /\ resources = << >>
    /\ active_zones = << >>
    /\ sched_queue = << >>
    /\ save_file = << >>
    /\ sched_round = NoneInt
    /\ rng = << >>
    /\ twin = << >>
    /\ round_counter = 0
    /\ next_id = 1
    /\ last \in { Call("input", << base, mods >>, "", NoOutcome, 0, << >>) :
                     base \in Bases, mods \in ModLists }

\* ModifiersEngine.apply_to_value(base, mods) on the chosen input
Resolve ==
    /\ last.op = "input"
    /\ last' = Call("apply_to_value", last.arg,
                    apply_to_value(RInt(last.arg[1]), last.arg[2]), NoOutcome, 0, << >>)
    /\ UNCHANGED << player, active_effects, active_conditions, by_scope, parent_index,
                    resources, active_zones, sched_queue, round_counter, next_id,
                    save_file, sched_round, rng, twin >>

NextMod == Resolve

SpecMod == InitMod /\ [][NextMod]_vars

\* the signed amount an additive modifier contributes on its own
Signed(m) == IF m.operator = "add" THEN m.value ELSE -m.value

Additive(m) == m.operator \in {"add", "subtract"}

\* the one of two modifiers with the higher signed amount
Higher(A, B) == IF Signed(A) >= Signed(B) THEN A ELSE B

\* a resolve call on exactly two additive modifiers has been made
TwoAdditive ==
    /\ last.op = "apply_to_value"
    /\ Len(last.arg[2]) = 2
    /\ Additive(last.arg[2][1])
    /\ Additive(last.arg[2][2])

\* C7: for two additive modifiers A, B of one bonus type other than dodge
\* the result equals the result for the higher of the two alone; for two
\* dodge modifiers, or two untyped modifiers that do not share a source
\* key, it equals base + A + B; two untyped modifiers sharing a source key
\* count only the higher.
C7_Stacking ==
    TwoAdditive =>
        LET base == last.arg[1]
            A == last.arg[2][1]
            B == last.arg[2][2]
            typedA == ~Falsy(A.bonusType)
            typedB == ~Falsy(B.bonusType)
        IN  /\ (typedA /\ A.bonusType = B.bonusType /\ A.bonusType # "dodge") =>
                  /\ last.ret = apply_to_value(RInt(base), << Higher(A, B) >>)
                  /\ last.ret = RInt(base + Max2(Signed(A), Signed(B)))
            /\ (A.bonusType = "dodge" /\ B.bonusType = "dodge") =>
                  last.ret = RInt(base + Signed(A) + Signed(B))
            /\ (~typedA /\ ~typedB /\ (A.sourceKey # B.sourceKey \/ A.sourceKey = NoneStr)) =>
                  last.ret = RInt(base + Signed(A) + Signed(B))
            /\ (~typedA /\ ~typedB /\ A.sourceKey = B.sourceKey /\ A.sourceKey # NoneStr) =>
                  last.ret = RInt(base + Max2(Signed(A), Signed(B)))

\* two morale bonuses of 1 and 2 on base 10 resolved to 12
C7_Witness ==
    /\ TwoAdditive
    /\ last.arg[1] = 10
    /\ last.arg[2][1] = EvaluatedMod("add", 1, "morale", NoneStr)
    /\ last.arg[2][2] = EvaluatedMod("add", 2, "morale", "s1")
    /\ last.ret = RInt(12)

\* C8: the result of apply_to_value is the same for every permutation of
\* the modifier list.
C8_OrderIndependent ==
    (last.op = "apply_to_value" /\ Len(last.arg[2]) >= 2) =>
        \A i, j \in DOMAIN last.arg[2] :
            apply_to_value(RInt(last.arg[1]),
                           [last.arg[2] EXCEPT ![i] = last.arg[2][j], ![j] = last.arg[2][i]])
                = last.ret

----------------------------------------------------------------------------
(* The damage pipeline on its own: apply_packets over bounded inputs       *)

MaxPackets == 2

\* DR 5/magic, DR 3/-, DR 2/slashing
DRMagic == DREntry(5, TRUE, {}, {}, {})
DRAny == DREntry(3, FALSE, {}, {}, {})
DRSlashing == DREntry(2, FALSE, {}, {}, {"slashing"})

DRConfigs == { << >>, << DRMagic >>, << DRAny, DRMagic >>, << DRSlashing >> }

VulnerabilityConfigs ==
    { NoVulnerability,
      [NoVulnerability EXCEPT !["physical.slashing"] = << 3, 2 >>],
      [NoVulnerability EXCEPT !["physical.slashing"] = << 1, 2 >>, !["fire"] = << 2, 1 >>],
      [NoVulnerability EXCEPT !["physical.slashing"] = << 0, 1 >>] }

\* an entity-scoped ablative pool: 3 points against physical damage, at
\* most 2 per hit
StoneskinPool ==
    ResourceState(<< "entity", PLAYER >>, "res.stoneskin", PLAYER, NoneInt, 3, 3,
                  {"physical"}, 2)

\* <<energy resistance, resources>>
DefenceConfigs ==
    { << NoResist, << >> >>,
      << [NoResist EXCEPT !["fire"] = 3], << >> >>,
      << NoResist, << StoneskinPool >> >> }

PacketPool ==
    { DamagePacket(a, k, m, {}, {}) :
        a \in {4, 12}, k \in {"physical.slashing", "physical.bludgeoning"}, m \in BOOLEAN }
    \cup { DamagePacket(a, k, FALSE, {}, {}) : a \in {4, 12}, k \in {"fire", "nonlethal"} }
    \cup { DamagePacket(0, "physical.slashing", FALSE, {}, {}) }

PacketLists == UNION { [1..n -> PacketPool] : n \in 1..MaxPackets }

InitDmg ==
    /\ \E dr \in DRConfigs, v \in VulnerabilityConfigs, d \in DefenceConfigs :
          /\ player = Entity(9, dr, d[1], v, {}, 0)
          /\ resources = d[2]
    /\ active_effects = << >>
    /\ active_conditions = << >>
    /\ by_scope = EmptyRegistry
    /\ parent_index = << >>
    /\ active_zones = << >>
    /\ sched_queue = << >>
    /\ save_file = << >>
    /\ sched_round = NoneInt
    /\ rng = << >>
    /\ twin = << >>
    /\ round_counter = 0
    /\ next_id = 1
    /\ last \in { Call("input", packets, "", NoOutcome, 0, << >>) : packets \in PacketLists }

\* DamageEngine.apply_packets(player, packets) on the chosen input; the
\* call record keeps the PipelineResult and the packets as committed
ApplyPackets ==
    LET r == apply_packets(player, resources, last.arg)
    IN  /\ last.op = "input"
        /\ player' = r.player
        /\ resources' = r.resources
        /\ last' = Call("apply_packets", last.arg,
                        [working |-> r.working, total_hp_damage |-> r.total_hp_damage,
                         total_nonlethal |-> r.total_nonlethal,
                         physical_damage_applied |-> r.physical_damage_applied],
                        NoOutcome, 0, << >>)
        /\ UNCHANGED << active_effects, active_conditions, by_scope, parent_index,
                        active_zones, sched_queue, round_counter, next_id,
                    save_file, sched_round, rng, twin >>

NextDmg == ApplyPackets

SpecDmg == InitDmg /\ [][NextDmg]_vars

\* a physical packet that carries damage
CarriesPhysical(p) == IsPhysical(p.dkind) /\ p.amount > 0

\* the DR entries that at least one physical packet does not bypass
NotBypassedEntries(ent, packets) ==
    { k \in DOMAIN ent.dr :
        \E i \in DOMAIN packets : CarriesPhysical(packets[i]) /\ dr_applies(ent.dr[k], packets[i]) }

\* the highest-value entry among them
HighestEntry(ent, packets) ==
    ent.dr[CHOOSE k \in NotBypassedEntries(ent, packets) :
               \A m \in NotBypassedEntries(ent, packets) : ent.dr[k].value >= ent.dr[m].value]

\* the packet is one the selected entry applies to
SubjectTo(entry, p) == CarriesPhysical(p) /\ dr_applies(entry, p)

\* the sum of the amounts of the first n packets the entry applies to
RECURSIVE SubjectSum(_, _, _)
SubjectSum(entry, packets, n) ==
    IF n = 0 THEN 0
    ELSE SubjectSum(entry, packets, n - 1)
         + (IF SubjectTo(entry, packets[n]) THEN packets[n].amount ELSE 0)

\* the amount of a packet after energy resistance
AfterResist(ent, p) ==
    IF ent.energy_resist[p.dkind] > 0 THEN Max2(0, p.amount - ent.energy_resist[p.dkind])
    ELSE p.amount

\* the share of the reduction that packet i bears when it is handed out in
\* packet order
ShareOf(entry, packets, i) ==
    LET total == Min2(entry.value, SubjectSum(entry, packets, Len(packets)))
    IN  IF SubjectTo(entry, packets[i])
        THEN Min2(packets[i].amount,
                  Max2(0, total - SubjectSum(entry, packets, i - 1)))
        ELSE 0

RECURSIVE RemovedSum(_, _, _, _)
RemovedSum(ent, packets, working, n) ==
    IF n = 0 THEN 0
    ELSE RemovedSum(ent, packets, working, n - 1)
         + (AfterResist(ent, packets[n]) - working[n].amount)

\* C10: damage reduction is applied once per call: with the highest-value
\* DR entry that some physical packet does not bypass, the total taken off
\* all packets is min(its value, the sum of the physical amounts it
\* applies to); packets that bypass it and non-physical packets are not
\* reduced (no pool and no vulnerability being in play).
C10_DROncePerAttack ==
    (last.op = "apply_packets" /\ resources = << >>
     /\ player.vulnerabilities = NoVulnerability) =>
        LET P == last.arg
            W == last.ret.working
        IN  IF NotBypassedEntries(player, P) = {}
            THEN \A i \in DOMAIN P : W[i].amount = AfterResist(player, P[i])
            ELSE LET entry == HighestEntry(player, P)
                 IN  /\ RemovedSum(player, P, W, Len(P))
                            = Min2(entry.value, SubjectSum(entry, P, Len(P)))
                     /\ \A i \in DOMAIN P :
                           /\ W[i].amount <= AfterResist(player, P[i])
                           /\ ~SubjectTo(entry, P[i]) => W[i].amount = AfterResist(player, P[i])

\* 12 non-magic slashing against DR 5/magic became 7 and a second,
\* magic, packet of 12 went through whole
C10_Witness ==
    /\ last.op = "apply_packets"
    /\ resources = << >>
    /\ player.dr = << DRMagic >>
    /\ player.vulnerabilities = NoVulnerability
    /\ last.arg = << DamagePacket(12, "physical.slashing", FALSE, {}, {}),
                     DamagePacket(12, "physical.bludgeoning", TRUE, {}, {}) >>
    /\ last.ret.working[1].amount = 7
    /\ last.ret.working[2].amount = 12

----------------------------------------------------------------------------
(* Hit points under attacks and healing: apply_packets and heal_hp in any  *)
(* order                                                                   *)

MaxNonlethal == 4
MaxDebt == 10

\* the player of the smoke tests: 40 of 40 hit points
Fighter(dr, energy_resist, vulnerabilities) ==
    [Entity(9, dr, energy_resist, vulnerabilities, {}, 0) EXCEPT !.hp_current = 40,
                                                                  !.hp_max = 40]

\* an entity-scoped pool of 20 that absorbs any kind, without per-hit cap
TempHpPool ==
    ResourceState(<< "entity", PLAYER >>, "res:temp_hp", PLAYER, NoneInt, 20, 20,
                  {"any"}, NoneInt)

\* a pool of 6 against fire owned by effect instance 1, at most 5 per hit
WardPool ==
    ResourceState(<< "effect", 1 >>, "res.ward", PLAYER, 1, 6, 6, {"fire"}, 5)

\* <<DR entries, energy resistance, vulnerabilities, resources>>
HpConfigs ==
    { << << >>, NoResist, NoVulnerability, << >> >>,
      << << >>, NoResist, NoVulnerability, << TempHpPool >> >>,
      << << DRMagic >>, [NoResist EXCEPT !["fire"] = 3],
         [NoVulnerability EXCEPT !["fire"] = << 3, 2 >>],
         << WardPool, StoneskinPool >> >>,
      << << >>, NoResist, NoVulnerability,
         << WardPool, [TempHpPool EXCEPT !.current = 5] >> >> }

HpPacketPool ==
    { DamagePacket(a, k, FALSE, {}, {}) :
        a \in {4, 30}, k \in {"physical.bludgeoning", "fire", "nonlethal"} }

\* attacks of one packet, and one of two
HpPacketLists ==
    { << p >> : p \in HpPacketPool }
    \cup { << DamagePacket(30, "fire", FALSE, {}, {}),
              DamagePacket(4, "physical.bludgeoning", FALSE, {}, {}) >> }

HealOps == { OpHealHP(10), OpHealHP(-10), OpHealNonlethal(4) }

InitHp ==
    /\ \E c \in HpConfigs :
          /\ player = Fighter(c[1], c[2], c[3])
          /\ resources = c[4]
    /\ active_effects = << >>
    /\ active_conditions = << >>
    /\ by_scope = EmptyRegistry
    /\ parent_index = << >>
    /\ active_zones = << >>
    /\ sched_queue = << >>
    /\ save_file = << >>
    /\ sched_round = NoneInt
    /\ rng = << >>
    /\ twin = << >>
    /\ round_counter = 0
    /\ next_id = 1
    /\ last = Call("init", << >>, "", NoOutcome, 0, << >>)

\* the game state a damage call leaves, and the record of the call
DamageStep(r, packets) ==
    /\ r.player.nonlethal_damage <= MaxNonlethal
    /\ player' = r.player
    /\ resources' = r.resources
    /\ last' = Call("apply_packets", packets,
                    [working |-> r.working, total_hp_damage |-> r.total_hp_damage,
                     total_nonlethal |-> r.total_nonlethal,
                     physical_damage_applied |-> r.physical_damage_applied],
                    NoOutcome, 0, << >>)
    /\ UNCHANGED << active_effects, active_conditions, by_scope, parent_index,
                    active_zones, sched_queue, round_counter, next_id,
                    save_file, sched_round >>

Damaged(r, packets) == DamageStep(r, packets) /\ UNCHANGED << rng, twin >>

\* DamageEngine.apply_packets(player, packets)
Attack(packets) == Damaged(apply_packets(player, resources, packets), packets)

\* the state an operation list leaves
Executed(st, op) ==
    /\ st.player.hp_current >= 0 - MaxDebt
    /\ player' = st.player
    /\ resources' = st.resources
    /\ last' = Call("heal_hp", << op.amount, op.nonlethal_only >>, "", NoOutcome,
                    st.ops_run, << >>)
    /\ UNCHANGED << active_effects, active_conditions, by_scope, parent_index,
                    active_zones, sched_queue, round_counter, next_id,
                    save_file, sched_round, rng, twin >>

\* EffectsEngine.execute_operations([heal_hp], player, player)
Heal(op) ==
    Executed(execute_operations(ExecState(player, active_conditions, resources, next_id),
                                << op >>, << >>, NoneInt, RInt(1), 1),
             op)

NextHp ==
    \/ \E packets \in HpPacketLists : Attack(packets)
    \/ \E op \in HealOps : Heal(op)

SpecHp == InitHp /\ [][NextHp]_vars

\* what a pool can give to one packet
Soak(rs) == IF rs.absorbPerHit # NoneInt THEN Min2(rs.current, rs.absorbPerHit) ELSE rs.current

\* the pools of the player whose absorbTypes match the kind
MatchingPools(res, dkind) ==
    { i \in DOMAIN res :
        /\ res[i].owner_entity_id = PLAYER
        /\ \/ "any" \in res[i].absorbTypes
           \/ "physical" \in res[i].absorbTypes /\ IsPhysical(dkind)
           \/ dkind \in res[i].absorbTypes }

\* what is left of the only packet of an attack after resistance and
\* damage reduction
AfterResistAndDR(ent, packets) ==
    AfterResist(ent, packets[1])
    - (IF NotBypassedEntries(ent, packets) = {} THEN 0
       ELSE ShareOf(HighestEntry(ent, packets),
                    << [packets[1] EXCEPT !.amount = AfterResist(ent, packets[1])] >>, 1))

\* what each pool lost in the step
Drops == [i \in DOMAIN resources |-> resources[i].current - resources'[i].current]

\* C11: in an attack of one packet, the matching pools are drawn on after
\* resistance and damage reduction and before the commit: no pool gives
\* more than min(its current, its per-hit cap, the amount left), together
\* they give min(amount left, what they can give), a single matching pool
\* therefore gives min(current, cap, amount left); pools that do not match
\* are unchanged and only the remainder (times the vulnerability
\* multiplier) is subtracted from hp_current.
C11_PoolBeforeCommit ==
    [][(last'.op = "apply_packets" /\ Len(last'.arg) = 1) =>
        LET p == last'.arg[1]
            a == AfterResistAndDR(player, last'.arg)
            M == MatchingPools(resources, p.dkind)
            total == Min2(a, SumOver(M, [i \in M |-> Soak(resources[i])]))
            left == Max2(0, PyRound(RMul(RInt(a - total), player.vulnerabilities[p.dkind])))
        IN  /\ DOMAIN resources' = DOMAIN resources
            /\ \A i \in DOMAIN resources :
                  /\ resources' [i] = [resources[i] EXCEPT !.current = @ - Drops[i]]
                  /\ i \in M => Drops[i] >= 0 /\ Drops[i] <= Min2(Soak(resources[i]), a)
                  /\ i \notin M => Drops[i] = 0
            /\ SumOver(M, [i \in M |-> Drops[i]]) = total
            /\ player'.hp_current =
                  (IF p.dkind = "nonlethal" \/ left = 0 THEN player.hp_current
                   ELSE Max2(0, player.hp_current - left))]_vars

\* the 20-point pool met 30 bludgeoning damage: it is empty and the
\* fighter lost 10 of 40 hit points
C11_Witness ==
    /\ last.op = "apply_packets"
    /\ last.arg = << DamagePacket(30, "physical.bludgeoning", FALSE, {}, {}) >>
    /\ resources = << [TempHpPool EXCEPT !.current = 0] >>
    /\ player.hp_current = 30
    /\ player.dr = << >>

\* C12: hp_current stays within 0..hp_max and nonlethal_damage stays at or
\* above 0 under every sequence of apply_packets calls and heal_hp
\* operations.
C12_HpWithinBounds ==
    /\ 0 <= player.hp_current
    /\ player.hp_current <= player.hp_max
    /\ player.nonlethal_damage >= 0

\* the effect definition snapshots an instantaneous duration
Instantaneous(effect_id) ==
    /\ effect_id \in EffectIds
    /\ effect_snapshot_duration(EffectDefs[effect_id].duration)[1] = "instantaneous"

\* C18: an attach of an instantaneous effect that takes effect runs each
\* of its operations once; whether it takes effect or not, the active
\* list and the hook registry are as before the attach.
C18_InstantaneousRetainsNothing ==
    [][(last'.op = "attach" /\ Instantaneous(last'.arg[1])) =>
        /\ active_effects' = active_effects
        /\ by_scope' = by_scope
        /\ parent_index' = parent_index
        /\ last'.ops_run = (IF last'.ret = "applied"
                            THEN Len(EffectDefs[last'.arg[1]].operations) ELSE 0)]_vars

\* a fireball took effect on a target that holds another effect: its one
\* operation ran, no instance of it is in the list and no "on.attack" hook
\* is registered
C18_Witness ==
    /\ last.op = "attach"
    /\ last.arg = << "spell.fireball" >>
    /\ last.ret = "applied"
    /\ last.ops_run = 1
    /\ active_effects # << >>
    /\ \A i \in DOMAIN active_effects : active_effects[i].definition_id # "spell.fireball"
    /\ by_scope["on.attack"] = << >>

----------------------------------------------------------------------------
(* The resource engine on its own: pools of a loaded game under every      *)
(* ResourceEngine operation and under damage absorption                    *)

MaxPools == 3
MaxExcess == 5

\* an entity-scoped pool of a definition, with the refresh policy of the
\* definition
PoolOf(def_id, current, max_computed) ==
    [ResourceState(<< "entity", PLAYER >>, def_id, PLAYER, NoneInt, current, max_computed,
                   {}, NoneInt)
        EXCEPT !.refresh = ResourceDefs[def_id].refresh]

\* a pool of "res.fixed" owned by effect instance 1 of the player
PoolEffFixed ==
    ResourceState(<< "effect", 1 >>, "res.fixed", PLAYER, 1, 5, 10, {}, NoneInt)

\* a pool of "res.increment" in the effect-instance scope: such a pool
\* records no owner entity
PoolOwnerless ==
    [ResourceState(<< "effect", 2 >>, "res.increment", NoneStr, 2, 5, 10, {}, NoneInt)
        EXCEPT !.refresh = ResourceDefs["res.increment"].refresh]

\* the resource states a game is loaded with
PoolConfigs ==
    { << PoolOf("res.fixed", 10, 10), PoolEffFixed >>,
      << PoolOf("res.reset", 5, 10), PoolOf("res.daily", 5, 10) >>,
      << PoolOf("res.increment", 5, 10), PoolOwnerless >>,
      << PoolOf("res.capped", 25, 25), WardPool >> }

InitRes ==
    /\ player = Fighter(<< >>, NoResist, NoVulnerability)
    /\ resources \in PoolConfigs
    /\ active_effects = << >>
    /\ active_conditions = << >>
    /\ by_scope = EmptyRegistry
    /\ parent_index = << >>
    /\ active_zones = << >>
    /\ sched_queue = << >>
    /\ save_file = << >>
    /\ sched_round = NoneInt
    /\ rng = << >>
    /\ twin = << >>
    /\ round_counter = 0
    /\ next_id = 1
    /\ last = Call("init", << >>, "", NoOutcome, 0, << >>)

\* the pools stay within the window this model looks at
InWindow(res) ==
    \A i \in DOMAIN res :
        /\ res[i].current <= res[i].max_computed + MaxExcess
        /\ res[i].current >= 0 - MaxDebt

\* the state a resource operation leaves, and the record of the call
ResourceCall(op, arg, res, ret) ==
    /\ InWindow(res)
    /\ resources' = res
    /\ last' = Call(op, arg, ret, NoOutcome, 0, << >>)
    /\ UNCHANGED << player, active_effects, active_conditions, by_scope, parent_index,
                    active_zones, sched_queue, round_counter, next_id,
                    save_file, sched_round, rng, twin >>

\* the record a ResourceEngine operation returns, stored
Returned(op, arg, r) == ResourceCall(op, arg, r.resources, r.ret)

CreateResource(def_id, initial_current) ==
    Returned("create_from_definition", << def_id, initial_current >>,
             create_from_definition(resources, def_id, PLAYER, initial_current))

GrantTempHp(amount) ==
    /\ Len(resources) < MaxPools
    /\ ResourceCall("grant_temp_hp", << amount >>,
                    grant_temp_hp(resources, amount, NoneInt), "")

Spend(resource_id, amount) ==
    Returned("spend", << PLAYER, resource_id, amount >>,
             spend(resources, PLAYER, resource_id, amount))

Restore(resource_id, amount, to_max) ==
    Returned("restore", << PLAYER, resource_id, amount, to_max >>,
             restore(resources, PLAYER, resource_id, amount, to_max))

SetCurrent(resource_id, current) ==
    Returned("set_current", << PLAYER, resource_id, current >>,
             set_current(resources, PLAYER, resource_id, current))

RecomputeCapacity(resource_id) ==
    Returned("recompute_capacity", << PLAYER, resource_id >>,
             recompute_capacity(resources, PLAYER, resource_id))

RefreshCadence(cadence) ==
    ResourceCall("refresh_cadence", << cadence >>, refresh_cadence(resources, cadence), "")

NextRes ==
    \/ \E c \in { << "res.fixed", NoneInt >>, << "res.fixed", 15 >>, << "res.unknown", NoneInt >> } :
          CreateResource(c[1], c[2])
    \/ \E amount \in {3, -2} : GrantTempHp(amount)
    \/ \E id \in {"res.fixed", "res.reset", "res.unknown"}, amount \in {-5, 5, 20} :
          Spend(id, amount)
    \/ \E id \in {"res.fixed", "res.unknown"},
          a \in { << NoneInt, FALSE >>, << NoneInt, TRUE >>, << -5, FALSE >>, << 5, FALSE >> } :
          Restore(id, a[1], a[2])
    \/ \E id \in {"res.increment", "res.unknown"}, current \in {-1, 99} : SetCurrent(id, current)
    \/ \E id \in {"res.capped", "res.fixed", "res.unknown"} : RecomputeCapacity(id)
    \/ \E cadence \in {"per_round", "per_day"} : RefreshCadence(cadence)
    \/ Attack(<< DamagePacket(4, "fire", FALSE, {}, {}) >>)

SpecRes == InitRes /\ [][NextRes]_vars

\* C13: every pool keeps 0 <= current <= max_computed under every
\* ResourceEngine operation and under damage absorption.
C13_PoolWithinBounds ==
    \A i \in DOMAIN resources :
        /\ 0 <= resources[i].current
        /\ resources[i].current <= resources[i].max_computed

\* the pool belongs to the owner for spend: it lies in the owner's entity
\* bucket, or in an effect bucket with the owner recorded
OwnedBy(rs, owner_entity_id) ==
    \/ rs.key = << "entity", owner_entity_id >>
    \/ rs.key[1] = "effect" /\ rs.owner_entity_id = owner_entity_id

\* the pools of the owner and the definition that hold at least the amount
CanPay(res, owner_entity_id, resource_id, amount) ==
    { i \in DOMAIN res :
        /\ OwnedBy(res[i], owner_entity_id)
        /\ res[i].definition_id = resource_id
        /\ res[i].current >= amount }

\* C14: spend returns False and changes no pool when no matching pool of
\* the owner holds the amount; otherwise it returns True, one such pool
\* has lost exactly the amount and every other pool is unchanged.
C14_SpendAllOrNothing ==
    [][last'.op = "spend" =>
        LET can == CanPay(resources, last'.arg[1], last'.arg[2], last'.arg[3])
        IN  IF can = {}
            THEN last'.ret = FALSE /\ resources' = resources
            ELSE /\ last'.ret = TRUE
                 /\ \E i \in can :
                       resources' = [resources EXCEPT ![i].current = @ - last'.arg[3]]]_vars

\* the entity pool could not pay a second time and the pool owned by the
\* effect instance paid instead
C14_Witness ==
    /\ last.op = "spend"
    /\ last.arg = << PLAYER, "res.fixed", 5 >>
    /\ last.ret = TRUE
    /\ resources = << PoolOf("res.fixed", 0, 10), [PoolEffFixed EXCEPT !.current = 0] >>

\* the pool is refreshed each round
PerRound(rs) == rs.refresh # NoRefresh /\ rs.refresh.cadence = "per_round"

C16_CreateSetsCapacity ==
    [][(last'.op = "create_from_definition" /\ last'.arg[1] \in ResourceIds) =>
        LET rd == ResourceDefs[last'.arg[1]]
            capacity == Max2(0, IF rd.cap # NoneInt THEN Min2(PyInt(rd.capacity), rd.cap)
                                ELSE PyInt(rd.capacity))
        IN  /\ Len(resources') = Len(resources) + 1
            /\ resources'[Len(resources')].max_computed = capacity
            /\ last'.arg[2] = NoneInt =>
                  resources'[Len(resources')].current =
                      (IF rd.initial_current # NoInitial THEN PyInt(rd.initial_current)
                       ELSE capacity)]_vars

----------------------------------------------------------------------------
(* Ids that content does not hold, asked of each of the four engines       *)

\* the state a zone creation leaves
ZoneCreated(r, zone_id) ==
    /\ r.next_id <= MaxInst + 1
    /\ active_zones' = r.active_zones
    /\ active_effects' = r.active_effects
    /\ by_scope' = r.reg.by_scope
    /\ parent_index' = r.reg.parent_index
    /\ next_id' = r.next_id
    /\ last' = Call("zone.create", << zone_id >>, r.ret, NoOutcome, 0, << >>)
    /\ UNCHANGED << player, active_conditions, resources, sched_queue, round_counter,
                    save_file, sched_round, rng, twin >>

\* ZoneEngine.create_from_definition(zone_id, player.id)
CreateZone(zone_id) ==
    ZoneCreated(zones_create_from_definition(active_zones, active_effects,
                                             Registry(by_scope, parent_index), next_id,
                                             zone_id),
                zone_id)

NextIds ==
    \/ \E effect_id \in EffectIds : Cast(effect_id)
    \/ CastUnknown
    \/ \E cond_id \in ConditionIds \cup {"cond.unknown"}, stacks \in BOOLEAN :
          ApplyCondition(cond_id, NoDuration, stacks)
    \/ \E zone_id \in ZoneIds \cup {"zone.unknown"} : CreateZone(zone_id)
    \/ CreateResource("res.unknown", NoneInt)

SpecIds == Init /\ [][NextIds]_vars

\* the call asked for an id that the engine's content does not hold
UnknownIdCall(c) ==
    \/ c.op = "attach" /\ c.arg[1] \notin EffectIds
    \/ c.op = "condition.apply" /\ c.arg[1] \notin ConditionIds
    \/ c.op = "create_from_definition" /\ c.arg[1] \notin ResourceIds
    \/ c.op = "zone.create" /\ c.arg[1] \notin ZoneIds

\* C17: attach, ConditionsEngine.apply, ResourceEngine.create_from_definition
\* and ZoneEngine.create_from_definition with an id that content does not
\* hold return the unknown-id log line, draw nothing from the random source
\* and leave the actor, the instance lists, the pools, the zones and the
\* hook registry unchanged.
C17_UnknownIdNoChange ==
    [][UnknownIdCall(last') =>
        /\ last'.ret = "unknown"
        /\ last'.outcome.draws = << >>
        /\ last'.ops_run = 0
        /\ UNCHANGED << player, active_effects, active_conditions, resources, active_zones, sched_queue,
                        by_scope, parent_index, next_id,
                    save_file, sched_round, rng, twin >>]_vars

\* an unknown zone id asked of a game that holds an effect, a condition, a
\* pool and registered hooks
C17_Witness ==
    /\ last.op = "zone.create"
    /\ last.arg = << "zone.unknown" >>
    /\ last.ret = "unknown"
    /\ active_effects # << >>
    /\ active_conditions # << >>
    /\ resources # << >>
    /\ parent_index # << >>

----------------------------------------------------------------------------
(* The save gate and the attack gate on their own, over every d20 face     *)

GateBonuses == {-3, 7, 25}
GateTargets == {2, 17, 45}

\* a definition with one save gate or one attack gate
GateEffect(saveType, saveBranch, saveDC, attackMode, acType) ==
    [EffectDefs["spell.fireball"] EXCEPT
        !.gates = GatesDef(FALSE, saveType, saveBranch, saveDC, attackMode, acType)]

\* resolved stats with the given save and attack bonus and the given AC;
\* the keys the gate must not read hold other values
GateStats(saveType, attackMode, acType, bonus, target) ==
    [key \in StatKeys |->
        CASE key = "save_fort" -> IF saveType = "Fort" THEN bonus ELSE bonus + 40
          [] key = "save_ref" -> bonus + 40
          [] key = "save_will" -> IF saveType = "Will" THEN bonus ELSE bonus + 40
          [] key = "attack_melee_bonus" -> IF attackMode = "melee" THEN bonus ELSE bonus + 40
          [] key = "attack_ranged_bonus" ->
                 IF attackMode = "ranged_touch" THEN bonus ELSE bonus + 40
          [] key = "ac_total" -> IF acType = "normal" THEN target ELSE target - 40
          [] key = "ac_touch" -> IF acType = "touch" THEN target ELSE target - 40
          [] OTHER -> target - 40]

\* a condition instance that conceals its bearer
Invisible == ConditionInstance(1, "cond.invisible", "permanent", NoneInt, {"invisible"})

SaveInputs ==
    [gate : {"save"}, saveType : {"Fort", "Will"}, roll : 1..20,
     bonus : GateBonuses, dc : GateTargets]

AttackInputs ==
    [gate : {"attack"}, attackMode : {"melee", "ranged_touch"}, acType : {"normal", "touch"},
     roll : 1..20, bonus : GateBonuses, ac : GateTargets, miss_roll : D100,
     confirm_roll : {1, 20}]

InitGate ==
    /\ player = Entity(9, << >>, NoResist, NoVulnerability, {}, 0)
    /\ active_effects = << >>
    /\ \/ /\ last \in { Call("input", in, "", NoOutcome, 0, << >>) : in \in SaveInputs }
          /\ active_conditions = << >>
       \/ /\ last \in { Call("input", in, "", NoOutcome, 0, << >>) : in \in AttackInputs }
          /\ active_conditions \in { << >>, << Invisible >> }
          /\ active_conditions = << >> => last.arg.miss_roll = 50
    /\ by_scope = EmptyRegistry
    /\ parent_index = << >>
    /\ resources = << >>
    /\ active_zones = << >>
    /\ sched_queue = << >>
    /\ save_file = << >>
    /\ sched_round = NoneInt
    /\ rng = << >>
    /\ twin = << >>
    /\ round_counter = 0
    /\ next_id = 2

\* the record of a gate's result
Gated(op, result) ==
    /\ last' = Call(op, last.arg, result, NoOutcome, 0, << >>)
    /\ UNCHANGED << player, active_effects, active_conditions, by_scope, parent_index,
                    resources, active_zones, sched_queue, round_counter, next_id,
                    save_file, sched_round, rng, twin >>

\* GatesEngine.save_gate on the chosen input
SaveGate ==
    /\ last.op = "input"
    /\ last.arg.gate = "save"
    /\ Gated("save_gate",
             save_gate(GateEffect(last.arg.saveType, "negates", last.arg.dc, "none", "normal"),
                       GateStats(last.arg.saveType, "none", "normal", last.arg.bonus, 0),
                       last.arg.roll))

\* GatesEngine.attack_gate on the chosen input
AttackGate ==
    /\ last.op = "input"
    /\ last.arg.gate = "attack"
    /\ Gated("attack_gate",
             attack_gate(GateEffect("", "absent", 0, last.arg.attackMode, last.arg.acType),
                         GateStats("", last.arg.attackMode, last.arg.acType,
                                   last.arg.bonus, last.arg.ac),
                         active_conditions, last.arg.roll, last.arg.miss_roll,
                         last.arg.confirm_roll))

NextGate == SaveGate \/ AttackGate

SpecGate == InitGate /\ [][NextGate]_vars

\* C19: a save on a natural 1 fails and a save on a natural 20 succeeds,
\* whatever the bonus and the DC; on 2 to 19 the save succeeds exactly
\* when roll + save bonus >= DC.
C19_SaveNaturals ==
    last.op = "save_gate" =>
        /\ last.ret.attempted
        /\ last.arg.roll = 1 => ~last.ret.succeeded
        /\ last.arg.roll = 20 => last.ret.succeeded
        /\ last.arg.roll \in 2..19 =>
              (last.ret.succeeded <=> last.arg.roll + last.arg.bonus >= last.arg.dc)

\* a natural 1 failed a save whose total, 26, is far above the DC of 2
C19_Witness ==
    /\ last.op = "save_gate"
    /\ last.arg.roll = 1
    /\ last.arg.bonus = 25
    /\ last.arg.dc = 2
    /\ ~last.ret.succeeded

\* C20: an attack on a natural 1 does not hit, whatever the bonus; against
\* a target without concealment a roll of 2 to 19 hits exactly when
\* roll + attack bonus >= the selected AC, and a natural 20 hits.
C20_AttackNaturals ==
    last.op = "attack_gate" =>
        /\ last.ret.attempted
        /\ last.arg.roll = 1 => ~last.ret.hit
        /\ (concealment_pct(active_conditions) = 0 /\ last.arg.roll \in 2..19) =>
              (last.ret.hit <=> last.arg.roll + last.arg.bonus >= last.arg.ac)
        /\ (concealment_pct(active_conditions) = 0 /\ last.arg.roll = 20) => last.ret.hit

\* a roll of 10 with a bonus of 7 hit an unconcealed target of AC 17
C20_Witness ==
    /\ last.op = "attack_gate"
    /\ active_conditions = << >>
    /\ last.arg.roll = 10
    /\ last.arg.bonus = 7
    /\ last.arg.ac = 17
    /\ last.ret.hit

----------------------------------------------------------------------------
(* The gate outcome and the damage an attach deals                         *)

\* the save of the outcome was a successful save for half
SavedForHalf(o) == o.save.attempted /\ o.save.branch = "half" /\ o.save.succeeded

\* the attack of the outcome hit and confirmed its threat
ConfirmedCrit(o) == o.attack.attempted /\ o.attack.hit /\ o.attack.crit

\* the packets of the damage operations of a definition, each amount
\* multiplied by the two factors and rounded
ScaledPackets(ed, half, crit) ==
    LET ops == SelectSeq(ed.operations, LAMBDA op : op.op = "damage")
    IN  [i \in 1..Len(ops) |->
            DamagePacket(PyRound(<< ops[i].amount * (IF crit THEN 2 ELSE 1),
                                    IF half THEN 2 ELSE 1 >>),
                         ops[i].dkind, ops[i].counts_as_magic, {}, {})]

\* C21: the outcome of evaluate has damage_scale 1/2 exactly when a save
\* for half was attempted and succeeded and 1 otherwise, and crit_mult 2
\* exactly when the attack hit and confirmed and 1 otherwise; an attach
\* that takes effect deals its damage operations as one attack of packets
\* whose amounts are the declared amounts times these two factors.
C21_ScaleAndCrit ==
    [][(last'.op = "attach" /\ last'.arg[1] \in EffectIds) =>
        LET o == last'.outcome
            ed == EffectDefs[last'.arg[1]]
        IN  /\ o.damage_scale = (IF SavedForHalf(o) THEN << 1, 2 >> ELSE << 1, 1 >>)
            /\ o.crit_mult = (IF ConfirmedCrit(o) THEN 2 ELSE 1)
            /\ (last'.ret \in {"applied", "attached"}
                /\ \E i \in DOMAIN ed.operations : ed.operations[i].op = "damage") =>
                  player' = apply_packets(player, resources,
                                          ScaledPackets(ed, SavedForHalf(o),
                                                        ConfirmedCrit(o))).player]_vars

\* a fireball of 4 that was saved for half and confirmed a critical hit
\* took 4 * 1/2 * 2 = 4 hit points
C21_Witness ==
    /\ last.op = "attach"
    /\ last.arg = << "spell.fireball" >>
    /\ last.ret = "applied"
    /\ SavedForHalf(last.outcome)
    /\ ConfirmedCrit(last.outcome)
    /\ player.hp_current = 5

----------------------------------------------------------------------------
(* Zones that declare an antimagic suppression                             *)

\* the state a zone destroy leaves
ZoneDestroyed(r, zone_definition_id, zone_instance_id) ==
    /\ active_zones' = r.active_zones
    /\ active_effects' = r.active_effects
    /\ by_scope' = r.reg.by_scope
    /\ parent_index' = r.reg.parent_index
    /\ last' = Call("zone.destroy", << zone_definition_id, zone_instance_id >>, r.ret,
                    NoOutcome, 0, << >>)
    /\ UNCHANGED << player, active_conditions, resources, sched_queue, round_counter,
                    next_id,
                    save_file, sched_round, rng, twin >>

\* ZoneEngine.destroy(player.id, zone_definition_id=..., zone_instance_id=...)
DestroyZone(zone_definition_id, zone_instance_id) ==
    ZoneDestroyed(zones_destroy(active_zones, active_effects,
                                Registry(by_scope, parent_index),
                                zone_definition_id, zone_instance_id),
                  zone_definition_id, zone_instance_id)

NextZone ==
    \/ \E effect_id \in {"spell.shield", "ex.rage", "spell.fireball"} : Cast(effect_id)
    \/ \E zone_id \in ZoneIds : CreateZone(zone_id)
    \/ \E zone_id \in ZoneIds : DestroyZone(zone_id, NoneInt)
    \/ \E instance_id \in 1..MaxInst : DestroyZone(NoneStr, instance_id)
    \/ AdvanceRound

SpecZone == Init /\ [][NextZone]_vars

\* an active zone whose definition declares the antimagic suppression is
\* stored on the entity
Covered(zones) ==
    \E i \in DOMAIN zones :
        /\ zones[i].active
        /\ zones[i].definition_id \in ZoneIds
        /\ ZoneDefs[zones[i].definition_id].suppression = "antimagic"

Magical(abilityType) == abilityType \in {"Su", "Sp", "Spell"}

\* C22: after every zone creation, zone destroy, round advance and attach,
\* a stored effect instance is suppressed exactly when its ability type
\* is Su, Sp or Spell and the entity is covered by an active antimagic zone.
C22_SuppressedIffCovered ==
    \A i \in DOMAIN active_effects :
        active_effects[i].suppressed <=>
            (Magical(active_effects[i].abilityType) /\ Covered(active_zones))

\* C30: an attach of a Su, Sp or Spell effect to a target covered by an
\* active antimagic zone draws nothing from the random source, runs none of
\* the operations and leaves the actor, the pools and the conditions as
\* they were.
C30_AntimagicNoGating ==
    [][(/\ last'.op = "attach"
        /\ last'.arg[1] \in EffectIds
        /\ Magical(EffectDefs[last'.arg[1]].abilityType)
        /\ Covered(active_zones)) =>
            /\ last'.outcome.draws = << >>
            /\ last'.ops_run = 0
            /\ UNCHANGED << player, resources, active_conditions >>]_vars

\* a fireball, which has a save gate, an attack gate and a damage
\* operation, cast inside an antimagic zone
C30_Witness ==
    /\ last.op = "attach"
    /\ last.arg = << "spell.fireball" >>
    /\ Covered(active_zones)
    /\ last.ops_run = 0
    /\ player.hp_current = player.hp_max

----------------------------------------------------------------------------
(* Stats over the life of a rounds effect                                  *)

\* an unsuppressed instance of the definition is stored
Contributes(effects, effect_id) ==
    \E i \in DOMAIN effects : effects[i].definition_id = effect_id /\ ~effects[i].suppressed

\* the Will save of the content of this model, from the stored instances:
\* base 4; morale bonuses (shield 2, rage 1) do not stack; each shaken
\* condition subtracts 2
WillFromStored(effects, conditions) ==
    PlayerBase.save_will
    + (IF Contributes(effects, "spell.shield") THEN 2
       ELSE IF Contributes(effects, "ex.rage") THEN 1 ELSE 0)
    - 2 * Cardinality({ i \in DOMAIN conditions : conditions[i].definition_id = "cond.shaken" })

\* the instance is stored in the list, with the given rounds left
StoredWith(effects, instance_id, rounds) ==
    \E j \in DOMAIN effects :
        effects[j].instance_id = instance_id /\ effects[j].remaining_rounds = rounds

\* C23: resolved_stats shows the modifiers of exactly the stored,
\* unsuppressed effect instances (and of the conditions); a round advance
\* keeps a rounds effect with 2 or more rounds left, with one round less,
\* so that it still contributes, and drops one with 1 round left, so that
\* an effect attached for N rounds contributes after the first N-1
\* advances and not after the N-th.
C23_StatsFollowInstances ==
    [][/\ resolved_stats(active_effects', active_conditions')["save_will"]
            = WillFromStored(active_effects', active_conditions')
       /\ last'.op = "next" =>
             \A i \in DOMAIN active_effects :
                 Ticks(active_effects[i]) =>
                     IF active_effects[i].remaining_rounds >= 2
                     THEN StoredWith(active_effects', active_effects[i].instance_id,
                                     active_effects[i].remaining_rounds - 1)
                     ELSE \A j \in DOMAIN active_effects' :
                             active_effects'[j].instance_id
                                 # active_effects[i].instance_id]_vars

\* the second advance after the shield (2 rounds, +2 morale) was cast over
\* a rage (+1 morale): the shield is gone and the Will save is 4 + 1
C23_Witness ==
    /\ last.op = "next"
    /\ round_counter = 2
    /\ \E i \in DOMAIN last.expired : last.expired[i][2] = "spell.shield"
    /\ Contributes(active_effects, "ex.rage")
    /\ ~Contributes(active_effects, "spell.shield")
    /\ resolved_stats(active_effects, active_conditions)["save_will"] = 5

----------------------------------------------------------------------------
(* The threat confirmation of an attack                                    *)

\* C29 as stated: whenever the attack gate results in a hit, on any die
\* roll, a threat-confirmation roll is drawn.
C29_AsStated ==
    last.op = "attack_gate" => (last.ret.hit => last.ret.confirm_rolled)

\* C29: a threat-confirmation roll is drawn exactly when the attack hits
\* on a natural 20; a hit on any other roll draws none and is no critical,
\* and a hit on a natural 20 is critical exactly when the confirmation roll
\* is a 20 or its total reaches the AC.
C29_ConfirmOnNatural20 ==
    last.op = "attack_gate" =>
        /\ last.ret.confirm_rolled <=> (last.ret.hit /\ last.arg.roll = 20)
        /\ last.ret.crit =>
              /\ last.ret.confirm_rolled
              /\ \/ last.arg.confirm_roll = 20
                 \/ last.arg.confirm_roll + last.arg.bonus >= last.arg.ac
        /\ (last.ret.confirm_rolled /\ last.arg.confirm_roll = 20) => last.ret.crit

\* a roll of 17 with a bonus of 7 hit AC 17 and no confirmation was rolled
C29_Witness ==
    /\ last.op = "attack_gate"
    /\ last.arg.roll = 17
    /\ last.arg.bonus = 7
    /\ last.arg.ac = 17
    /\ last.ret.hit
    /\ ~last.ret.confirm_rolled
    /\ ~last.ret.crit

----------------------------------------------------------------------------
(* Resource pools of effect instances that are gone                        *)

\* C28: in every state, a resource pool owned by an effect instance has
\* its owner among the stored effect instances: expiry and detach remove
\* the pools of the instance together with it.
C28_NoOrphanPools ==
    \A i \in DOMAIN resources :
        resources[i].owner_effect_instance_id # NoneInt =>
            \E j \in DOMAIN active_effects :
                active_effects[j].instance_id = resources[i].owner_effect_instance_id

----------------------------------------------------------------------------
(* The scheduled queue over round advances                                 *)

\* the state Scheduler.advance_rounds(1) leaves
SchedulerAdvanced(d) ==
    /\ round_counter < MaxRounds
    /\ round_counter' = round_counter + 1
    /\ sched_queue' = d.queue
    /\ player' = d.st.player
    /\ active_conditions' = d.st.active_conditions
    /\ resources' = d.st.resources
    /\ next_id' = d.st.next_id
    /\ last' = Call("advance_rounds", << 1 >>, "", NoOutcome, d.st.ops_run, << >>)
    /\ UNCHANGED << active_effects, by_scope, parent_index, active_zones,
                    save_file, sched_round, rng, twin >>

\* Scheduler.advance_rounds(1): the round counter, the start-of-turn
\* hooks, the drain; the method ends there
SchedulerAdvance ==
    SchedulerAdvanced(
        drain_scheduled(scheduler_event(sched_queue, by_scope, active_effects,
                                        "startOfTurn", round_counter + 1),
                        round_counter + 1,
                        ExecState(player, active_conditions, resources, next_id)))

NextSched ==
    \/ \E effect_id \in {"spell.shield", "ex.rage", "spell.hold"} : Cast(effect_id)
    \/ AdvanceRound
    \/ SchedulerAdvance

SpecSched == Init /\ [][NextSched]_vars

\* the entries of a queue that are due at a round
DueAt(queue, now_round) == SelectSeq(queue, LAMBDA q : q.when_round <= now_round)

\* C24: a single round advance drains the queue within that advance:
\* after it no entry whose due round is <= the new round counter is left
\* in the queue, and the operations of the entries that were queued and
\* due have been run.
C24_AdvanceDrains ==
    [][ last'.op \in {"next", "advance_rounds"} =>
          /\ DueAt(sched_queue', round_counter') = << >>
          /\ last'.ops_run >= Len(ScheduledOps(DueAt(sched_queue, round_counter'))) ]_vars

----------------------------------------------------------------------------
(* The phases of the host's round advance                                  *)

\* C25: every round advance of the host runs all its phases, in order:
\* the start-of-turn hooks fire on the registry and the round counter of
\* before the advance, the conditions and the effects tick, the per-round
\* resources refresh, the zones tick, and the end-of-turn hooks fire on
\* the registry and the instances the ticks leave; the round counter
\* increases by exactly 1.
C25_AllPhasesInOrder ==
    [][ last'.op = "next" =>
          /\ round_counter' = round_counter + 1
          /\ active_conditions' = conditions_tick_round(active_conditions).active_conditions
          /\ \A i \in DOMAIN active_effects :
                Ticks(active_effects[i]) =>
                    IF active_effects[i].remaining_rounds >= 2
                    THEN StoredWith(active_effects', active_effects[i].instance_id,
                                    active_effects[i].remaining_rounds - 1)
                    ELSE \A j \in DOMAIN active_effects' :
                            active_effects'[j].instance_id # active_effects[i].instance_id
          /\ resources' = refresh_cadence(resources, "per_round")
          /\ active_zones' =
                zones_tick_round(active_zones, Registry(by_scope, parent_index)).active_zones
          /\ sched_queue' =
                scheduler_event(
                    scheduler_event(sched_queue, by_scope, active_effects, "startOfTurn",
                                    round_counter),
                    by_scope', active_effects', "endOfTurn", round_counter') ]_vars

----------------------------------------------------------------------------
(* Two runs on one random source                                           *)

\* the length of the random source's stream
MaxDraws == 4

\* what one value of the random source shows on a d20 and on a d100
StreamValues ==
    { [d20 |-> 1, d100 |-> 50], [d20 |-> 10, d100 |-> 51], [d20 |-> 20, d100 |-> 50] }

\* the dice of one gate evaluation, each drawn from the stream when the
\* gate reaches its draw, in the order sr, save, attack, miss chance,
\* confirmation; n counts the values consumed so far
DrawIf(d, needed, die, stream) ==
    IF ~needed THEN [face |-> NoRoll, n |-> d.n, short |-> d.short]
    ELSE IF d.n + 1 > Len(stream) THEN [face |-> NoRoll, n |-> d.n, short |-> TRUE]
    ELSE [face |-> stream[d.n + 1][die], n |-> d.n + 1, short |-> d.short]

RollsFrom(ed, ent, stats, conditions, stream) ==
    LET d0 == [face |-> NoRoll, n |-> 0, short |-> FALSE]
        d1 == DrawIf(d0, sr_rolls(ed, ent), "d20", stream)
        sr == sr_gate(ed, ent, d1.face)
        d2 == DrawIf(d1, sr.passed /\ ed.gates.saveBranch # "absent", "d20", stream)
        sv == save_gate(ed, stats, d2.face)
        d3 == DrawIf(d2, sr.passed /\ allowed_after_save(sv) /\ ed.gates.attackMode # "none",
                     "d20", stream)
        d4 == DrawIf(d3, d3.face \notin {NoRoll, 1} /\ concealment_pct(conditions) > 0,
                     "d100", stream)
        d5 == DrawIf(d4, d3.face = 20
                         /\ ~(d4.face # NoRoll /\ d4.face <= concealment_pct(conditions)),
                     "d20", stream)
    IN  [roll |-> Roll(d1.face, d2.face, d3.face, d4.face, d5.face),
         n |-> d5.n, short |-> d5.short]

\* the stream after n draws
Drawn(stream, n) == SubSeq(stream, n + 1, Len(stream))

\* one run: the game state, the hook registry, the scheduler queue, the
\* random source and the log of the last call
Run(ent, effects, conditions, reg, res, zones, queue, rc, nid, stream, log) ==
    [player |-> ent, active_effects |-> effects, active_conditions |-> conditions,
     by_scope |-> reg.by_scope, parent_index |-> reg.parent_index, resources |-> res,
     active_zones |-> zones, sched_queue |-> queue, round_counter |-> rc,
     next_id |-> nid, rng |-> stream, log |-> log]

\* attach in a run, on the dice its own random source yields
run_attached(t, rolls, r, effect_id) ==
    Run(r.player, r.active_effects, r.active_conditions, r.reg, r.resources,
        t.active_zones, t.sched_queue, t.round_counter, r.next_id,
        Drawn(t.rng, rolls.n),
        Call("attach", << effect_id >>, r.ret, r.outcome, r.ops_run, << >>))

run_attach_on(t, rolls, effect_id) ==
    run_attached(t, rolls,
                 attach(t.player, resolved_stats(t.active_effects, t.active_conditions),
                        t.active_effects, t.active_conditions,
                        Registry(t.by_scope, t.parent_index), t.resources, t.next_id,
                        effect_id, rolls.roll),
                 effect_id)

run_attach(t, effect_id) ==
    run_attach_on(t, RollsFrom(EffectDefs[effect_id], t.player,
                               resolved_stats(t.active_effects, t.active_conditions),
                               t.active_conditions, t.rng),
                  effect_id)

\* apply_packets in a run
run_damaged(t, r, packets) ==
    [t EXCEPT !.player = r.player, !.resources = r.resources,
              !.log = Call("apply_packets", packets,
                           [working |-> r.working, total_hp_damage |-> r.total_hp_damage,
                            total_nonlethal |-> r.total_nonlethal,
                            physical_damage_applied |-> r.physical_damage_applied],
                           NoOutcome, 0, << >>)]

run_attack(t, packets) == run_damaged(t, apply_packets(t.player, t.resources, packets), packets)

\* "next" in a run
run_advanced(t, c, e, z) ==
    Run(t.player, next_effects(e, z), c.active_conditions, z.reg,
        refresh_cadence(t.resources, "per_round"), z.active_zones,
        next_scheduled(t.sched_queue, t.by_scope, t.active_effects, e, z,
                       t.round_counter, t.round_counter + 1),
        t.round_counter + 1, t.next_id, t.rng,
        Call("next", << >>, z.ret, NoOutcome, 0, c.expired \o e.expired \o z.expired))

run_next(t) ==
    run_advanced(t, conditions_tick_round(t.active_conditions),
                 effects_tick_round(t.active_effects, Registry(t.by_scope, t.parent_index)),
                 zones_tick_round(t.active_zones,
                                  effects_tick_round(t.active_effects,
                                                     Registry(t.by_scope,
                                                              t.parent_index)).reg))

\* both runs start from one game state and one random-source state
InitDet ==
    /\ player \in { Entity(9, << >>, NoResist, NoVulnerability, {}, sr) : sr \in {0, 15} }
    /\ active_effects = << >>
    /\ active_conditions = << >>
    /\ by_scope = EmptyRegistry
    /\ parent_index = << >>
    /\ resources = << >>
    /\ active_zones = << >>
    /\ sched_queue = << >>
    /\ save_file = << >>
    /\ sched_round = NoneInt
    /\ rng \in [1..MaxDraws -> StreamValues]
    /\ round_counter = 0
    /\ next_id = 1
    /\ last = Call("init", << >>, "", NoOutcome, 0, << >>)
    /\ twin = Run(player, active_effects, active_conditions,
                  Registry(by_scope, parent_index), resources, active_zones, sched_queue,
                  round_counter, next_id, rng, last)

\* the state an attach on the dice of the random source leaves in both runs
SeededAttached(rolls, effect_id) ==
    /\ ~rolls.short
    /\ AttachStep(attach(player, resolved_stats(active_effects, active_conditions),
                         active_effects, active_conditions,
                         Registry(by_scope, parent_index), resources, next_id,
                         effect_id, rolls.roll),
                  effect_id)
    /\ rng' = Drawn(rng, rolls.n)
    /\ twin' = run_attach(twin, effect_id)

\* an attach whose dice come from a random source of its own
\* (EffectsEngine built without rng: random.Random())
SeededCast_FreshDice(effect_id) ==
    \E fresh \in [1..MaxDraws -> StreamValues] :
        SeededAttached(RollsFrom(EffectDefs[effect_id], player,
                                 resolved_stats(active_effects, active_conditions),
                                 active_conditions, fresh),
                       effect_id)

\* EffectsEngine.attach, the gates drawing from the engine's random source
SeededCast(effect_id) ==
    SeededAttached(RollsFrom(EffectDefs[effect_id], player,
                             resolved_stats(active_effects, active_conditions),
                             active_conditions, rng),
                   effect_id)

\* DamageEngine.apply_packets in both runs
SeededAttack(packets) ==
    /\ DamageStep(apply_packets(player, resources, packets), packets)
    /\ UNCHANGED rng
    /\ twin' = run_attack(twin, packets)

\* "next" in both runs
SeededAdvance ==
    /\ AdvanceStep(conditions_tick_round(active_conditions),
                   effects_tick_round(active_effects, Registry(by_scope, parent_index)),
                   zones_tick_round(active_zones,
                                    effects_tick_round(active_effects,
                                                       Registry(by_scope, parent_index)).reg))
    /\ UNCHANGED rng
    /\ twin' = run_next(twin)

NextDet ==
    \/ \E effect_id \in {"spell.hold", "spell.fireball", "spell.shield"} :
          SeededCast(effect_id)
    \/ SeededAttack(<< DamagePacket(4, "fire", FALSE, {}, {}) >>)
    \/ SeededAdvance

SpecDet == InitDet /\ [][NextDet]_vars

----------------------------------------------------------------------------
(* Saving and loading: save_game, GameEngine.save_current / load_slot      *)

\* what GameState.model_dump_json writes of the state modelled here; the
\* hook registry, the scheduler queue and the engine's random source are
\* no fields of GameState
Snapshot(ent, effects, conditions, res, zones, rc) ==
    [player |-> ent, active_effects |-> effects, active_conditions |-> conditions,
     resources |-> res, active_zones |-> zones, round_counter |-> rc]

\* save_game(slot_id, campaign_id, engine_version, state, description):
\* save.json is overwritten with the dump of the state
SaveGame ==
    /\ save_file' = << Snapshot(player, active_effects, active_conditions, resources,
                                active_zones, round_counter) >>
    /\ last' = Call("save_game", << >>, "", NoOutcome, 0, << >>)
    /\ UNCHANGED << player, active_effects, active_conditions, by_scope, parent_index,
                    resources, active_zones, sched_queue, sched_round, rng, twin,
                    round_counter, next_id >>

\* GameEngine.save_current with a slot and a campaign: save_game is called
\* with the random source as a fifth positional argument and description
\* as a keyword, which raises TypeError before anything is written
SaveCurrent ==
    /\ last' = Call("save_current", << >>, "TypeError", NoOutcome, 0, << >>)
    /\ UNCHANGED << player, active_effects, active_conditions, by_scope, parent_index,
                    resources, active_zones, sched_queue, sched_round, save_file, rng,
                    twin, round_counter, next_id >>

\* the state load_slot leaves when save.json holds a dump: the state is
\* the loaded one, the sub-engines are rebuilt on it with a new, empty
\* hook registry, the Scheduler object is kept with its queue and stays
\* bound to the state of before, and md.rng_state (no field of SaveMeta)
\* raises AttributeError into the handler's except clause before the
\* random source is set
Loaded(dump) ==
    /\ player' = dump.player
    /\ active_effects' = dump.active_effects
    /\ active_conditions' = dump.active_conditions
    /\ resources' = dump.resources
    /\ active_zones' = dump.active_zones
    /\ round_counter' = dump.round_counter
    /\ by_scope' = EmptyRegistry
    /\ parent_index' = << >>
    /\ sched_round' = scheduler_round(sched_round, round_counter)
    /\ last' = Call("load_slot", << >>, "Error loading save slot", NoOutcome, 0, << >>)
    /\ UNCHANGED << sched_queue, save_file, rng, twin, next_id >>

\* GameEngine.load_slot(slot_id)
LoadSlot ==
    IF save_file = << >>
    THEN /\ last' = Call("load_slot", << >>, "Error loading save slot", NoOutcome, 0, << >>)
         /\ UNCHANGED << player, active_effects, active_conditions, by_scope, parent_index,
                         resources, active_zones, sched_queue, sched_round, save_file,
                         rng, twin, round_counter, next_id >>
    ELSE Loaded(save_file[1])

NextSave ==
    \/ \E effect_id \in {"spell.shield", "ex.rage", "spell.hold"} : Cast(effect_id)
    \/ AdvanceRound
    \/ SaveGame
    \/ SaveCurrent
    \/ LoadSlot

SpecSave == Init /\ [][NextSave]_vars

\* the rule hooks of every stored effect instance are registered
HooksOfStored(effects, bs) ==
    \A i \in DOMAIN effects :
        \A k \in DOMAIN EffectDefs[effects[i].definition_id].ruleHooks :
            \E j \in DOMAIN bs[EffectDefs[effects[i].definition_id].ruleHooks[k].scope] :
                bs[EffectDefs[effects[i].definition_id].ruleHooks[k].scope][j].hook_id
                    = << effects[i].instance_id, k >>

\* C27: saving writes the state, and loading a save restores the actor,
\* the effect and condition instances with their remaining rounds, the
\* resource pools and the round counter as saved, together with the
\* registered hooks that belong to the restored instances, and reports
\* the load as done.
C27_SaveLoadRestores ==
    [][ /\ last'.op = "save_current" =>
              save_file' = << Snapshot(player, active_effects, active_conditions,
                                       resources, active_zones, round_counter) >>
        /\ (last'.op = "load_slot" /\ save_file # << >>) =>
              /\ Snapshot(player', active_effects', active_conditions', resources',
                          active_zones', round_counter') = save_file[1]
              /\ HooksOfStored(active_effects', by_scope')
              /\ last'.ret = "Loaded save" ]_vars

----------------------------------------------------------------------------
(* Incoming-effect hooks that block                                        *)

\* the decision the registered incoming.effect hooks declare is "block"
BlockDeclared(bs, effects) == ~incoming_effect(bs, effects)

----------------------------------------------------------------------------
(* Order of the hook buckets and of dispatch                               *)

HookEvents ==
    {"incoming.effect", "incoming.damage", "startOfTurn", "endOfTurn",
     "on.save.pre", "on.attack.pre"}

\* hook a was registered before hook b: instance ids are handed out in
\* order, and the hooks of one definition are registered in list order
RegisteredBefore(a, b) ==
    \/ a.hook_id[1] < b.hook_id[1]
    \/ a.hook_id[1] = b.hook_id[1] /\ a.hook_id[2] < b.hook_id[2]

\* a comes before b in ascending priority, registration order on a tie
OrderedBefore(a, b) ==
    \/ a.priority < b.priority
    \/ a.priority = b.priority /\ RegisteredBefore(a, b)

\* the hooks a dispatcher runs, in the order its loop reaches them
RECURSIVE dispatch_visits(_, _, _)
dispatch_visits(hooks, effects, event) ==
    IF hooks = << >> THEN << >>
    ELSE IF is_parent_suppressed(Head(hooks), effects) \/ ~match_event(Head(hooks), event)
    THEN dispatch_visits(Tail(hooks), effects, event)
    ELSE << Head(hooks) >> \o dispatch_visits(Tail(hooks), effects, event)

\* the registry after one of its calls
HooksChanged(reg, op, arg, nid) ==
    /\ by_scope' = reg.by_scope
    /\ parent_index' = reg.parent_index
    /\ next_id' = nid
    /\ last' = Call(op, arg, "", NoOutcome, 0, << >>)
    /\ UNCHANGED << player, active_effects, active_conditions, resources, active_zones,
                    sched_queue, sched_round, save_file, rng, twin, round_counter >>

\* register_for_effect(ed, parent_instance_id, player.id) for a new instance
RegisterForEffect(effect_id) ==
    /\ next_id <= MaxParents
    /\ HooksChanged(register_for_effect(Registry(by_scope, parent_index),
                                        EffectDefs[effect_id].ruleHooks, next_id, 1),
                    "register_for_effect", << effect_id >>, next_id + 1)

\* register_for_zone(zd, zone_instance_id, player.id) for a new instance
RegisterForZone(zone_id) ==
    /\ next_id <= MaxParents
    /\ HooksChanged(register_for_effect(Registry(by_scope, parent_index),
                                        ZoneDefs[zone_id].hooks, next_id, 1),
                    "register_for_zone", << zone_id >>, next_id + 1)

\* unregister_by_parent(parent_instance_id)
UnregisterByParent(parent_instance_id) ==
    HooksChanged(unregister_by_parent(Registry(by_scope, parent_index), parent_instance_id),
                 "unregister_by_parent", << parent_instance_id >>, next_id)

NextHooks ==
    \/ \E effect_id \in EffectIds : RegisterForEffect(effect_id)
    \/ \E zone_id \in ZoneIds : RegisterForZone(zone_id)
    \/ \E parent_instance_id \in 1..MaxParents : UnregisterByParent(parent_instance_id)

SpecHooks == Init /\ [][NextHooks]_vars

\* C32: every bucket of the registry is in ascending priority, hooks of
\* equal priority in registration order, and a dispatch for a scope visits
\* the matching hooks in that order.
C32_BucketsOrdered ==
    \A sc \in HookScopes :
        /\ \A i, j \in DOMAIN by_scope[sc] :
               i < j => OrderedBefore(by_scope[sc][i], by_scope[sc][j])
        /\ \A event \in HookEvents :
               LET visits == dispatch_visits(by_scope[sc], active_effects, event)
               IN  /\ \A i, j \in DOMAIN visits :
                          i < j => OrderedBefore(visits[i], visits[j])
                   /\ Range(visits) =
                          { h \in Range(by_scope[sc]) :
                              /\ ~is_parent_suppressed(h, active_effects)
                              /\ match_event(h, event) }

\* after an unregister_by_parent, a hook that was registered later sits
\* ahead of two earlier ones of one higher priority number
C32_Witness ==
    /\ last.op = "unregister_by_parent"
    /\ Len(by_scope["scheduler"]) = 3
    /\ by_scope["scheduler"][1].hook_id[1] > by_scope["scheduler"][2].hook_id[1]
    /\ by_scope["scheduler"][2].priority = by_scope["scheduler"][3].priority

----------------------------------------------------------------------------
(* Operation lists: faulty operations, and the order of effect             *)

MaxOps == 3

\* the operations the lists are drawn from: damage, heal, temporary hit
\* points and a condition of the content, a condition content does not
\* hold, a kind without a branch, and two amounts that do not evaluate
OpsPool ==
    { OpDamage(4, "physical.bludgeoning", FALSE), OpHealHP(2), OpTempHP(2),
      OpConditionApply("cond.shaken", NoDuration, FALSE),
      OpConditionApply("cond.unknown", NoDuration, FALSE),
      OpTeleport, OpHealHP(BadFormula),
      OpDamage(BadFormula, "physical.bludgeoning", FALSE) }

OpLists == UNION { [1..n -> OpsPool] : n \in 1..MaxOps }

InitOps ==
    /\ \E dr \in { << >>, << DRMagic >> }, hp \in {20, 39} :
          player = [Fighter(dr, NoResist, NoVulnerability) EXCEPT !.hp_current = hp]
    /\ resources = << >>
    /\ active_effects = << >>
    /\ active_conditions = << >>
    /\ by_scope = EmptyRegistry
    /\ parent_index = << >>
    /\ active_zones = << >>
    /\ sched_queue = << >>
    /\ save_file = << >>
    /\ sched_round = NoneInt
    /\ rng = << >>
    /\ twin = << >>
    /\ round_counter = 0
    /\ next_id = 1
    /\ last = Call("init", << >>, "", NoOutcome, 0, << >>)

\* the state an operation list leaves, and the record of the call
OpsExecuted(st, ops, parent_instance_id) ==
    /\ player' = st.player
    /\ active_conditions' = st.active_conditions
    /\ resources' = st.resources
    /\ next_id' = st.next_id
    /\ last' = Call("execute_operations", << ops, parent_instance_id >>,
                    IF st.raised THEN "Exception" ELSE "", NoOutcome, st.ops_run, << >>)
    /\ UNCHANGED << active_effects, by_scope, parent_index, active_zones, sched_queue,
                    round_counter, save_file, sched_round, rng, twin >>

\* EffectsEngine.execute_operations(ops, player, player,
\* parent_instance_id=...) on the new game: attach passes the id of its
\* instance, the hook and scheduler callers pass None
ExecuteOperations(ops, parent_instance_id) ==
    /\ last.op = "init"
    /\ OpsExecuted(execute_operations(ExecState(player, active_conditions, resources,
                                                next_id),
                                      ops, << >>, parent_instance_id, RInt(1), 1),
                   ops, parent_instance_id)

NextOps ==
    \E ops \in OpLists, parent_instance_id \in {NoneInt, 1} :
        ExecuteOperations(ops, parent_instance_id)

SpecOps == InitOps /\ [][NextOps]_vars

\* the kinds execute_operations has a branch for, among those of OpsPool
HandledKinds == {"damage", "heal_hp", "temp_hp", "condition.apply"}

\* an operation that names an unknown definition, has an unhandled kind,
\* or whose amount does not evaluate
Faulty(op) ==
    \/ op.op \notin HandledKinds
    \/ op.op = "condition.apply" /\ op.id \notin ConditionIds
    \/ eval_raises(op)

\* the list with every faulty operation replaced by one that does nothing
WithoutFaulty(ops) == [i \in DOMAIN ops |-> IF Faulty(ops[i]) THEN OpTeleport ELSE ops[i]]

\* the game state equals that part of an executor state
SameGame(ent, conditions, res, st) ==
    /\ ent = st.player
    /\ conditions = st.active_conditions
    /\ res = st.resources

\* C33: a faulty operation of the list is skipped and every other operation
\* of the list is still executed: the call returns, it has reached every
\* operation, and it leaves the state the list without its faulty
\* operations leaves.
C33_FaultySkipped ==
    [][last'.op = "execute_operations" =>
          /\ last'.ret = ""
          /\ last'.ops_run = Len(last'.arg[1])
          /\ SameGame(player', active_conditions', resources',
                      execute_operations(ExecState(player, active_conditions, resources,
                                                   next_id),
                                         WithoutFaulty(last'.arg[1]), << >>,
                                         last'.arg[2], RInt(1), 1))]_vars

\* the same for lists whose amounts all evaluate
UnknownAndUnhandledSkipped ==
    [][(/\ last'.op = "execute_operations"
        /\ \A i \in DOMAIN last'.arg[1] : ~eval_raises(last'.arg[1][i])) =>
          /\ last'.ret = ""
          /\ last'.ops_run = Len(last'.arg[1])
          /\ SameGame(player', active_conditions', resources',
                      execute_operations(ExecState(player, active_conditions, resources,
                                                   next_id),
                                         WithoutFaulty(last'.arg[1]), << >>,
                                         last'.arg[2], RInt(1), 1))]_vars

\* a heal after an unknown condition and an unhandled kind has healed
SkippedThenHealed ==
    /\ last.op = "execute_operations"
    /\ last.arg[1] = << OpConditionApply("cond.unknown", NoDuration, FALSE), OpTeleport,
                        OpHealHP(2) >>
    /\ player.hp_current = 22

\* a heal after an amount that does not evaluate has not run
RaisedBeforeHeal ==
    /\ last.op = "execute_operations"
    /\ last.arg[1] = << OpHealHP(BadFormula), OpHealHP(2) >>
    /\ last.ret = "Exception"
    /\ player.hp_current = 20

\* the number of damage operations the list starts with
RECURSIVE DamageRun(_)
DamageRun(ops) ==
    IF ops = << >> \/ Head(ops).op # "damage" THEN 0 ELSE 1 + DamageRun(Tail(ops))

\* the list taken in declared order: each maximal run of damage operations
\* is one attack, every other operation acts on the state left so far
RECURSIVE InDeclaredOrder(_, _, _)
InDeclaredOrder(st, ops, parent_instance_id) ==
    IF ops = << >> THEN st
    ELSE IF Head(ops).op = "damage"
    THEN InDeclaredOrder(
             flush_packets(st, [i \in 1..DamageRun(ops) |->
                                   damage_op_packet(ops[i], RInt(1), 1)]),
             SubSeq(ops, DamageRun(ops) + 1, Len(ops)), parent_instance_id)
    ELSE InDeclaredOrder(execute_operation(st, Head(ops), parent_instance_id), Tail(ops),
                         parent_instance_id)

\* every amount of the list evaluates
Evaluable(ops) == \A i \in DOMAIN ops : ~eval_raises(ops[i])

\* C40: execute_operations takes effect in declared order: each run of
\* consecutive damage operations is committed as one attack, before the
\* next operation of another kind runs and at the end of the list.
C40_DeclaredOrder ==
    [][(last'.op = "execute_operations" /\ Evaluable(last'.arg[1])) =>
          SameGame(player', active_conditions', resources',
                   InDeclaredOrder(ExecState(player, active_conditions, resources,
                                             next_id),
                                   last'.arg[1], last'.arg[2]))]_vars

\* two damage operations of 4 against DR 5/magic lose 5 once, the 3 that
\* are left are dealt before the heal of 2 is capped at 40 hit points
C40_Witness ==
    /\ last.op = "execute_operations"
    /\ last.arg[1] = << OpDamage(4, "physical.bludgeoning", FALSE),
                        OpDamage(4, "physical.bludgeoning", FALSE), OpHealHP(2) >>
    /\ player.dr = << DRMagic >>
    /\ player.hp_max = 40
    /\ player.hp_current = 38

----------------------------------------------------------------------------
(* Temporary hit points granted by an operation                            *)

\* C34: after a temp_hp operation of an effect instance has granted N > 0
\* temporary hit points, a damage packet of amount A that meets no
\* resistance, damage reduction or vulnerability lowers hp_current by
\* max(0, A - N) only.
C34_TempHpAbsorbsFirst ==
    [][(/\ last'.op = "execute_operations"
        /\ Len(last'.arg[1]) = 2
        /\ last'.arg[1][1].op = "temp_hp" /\ last'.arg[1][1].amount > 0
        /\ last'.arg[1][2].op = "damage" /\ last'.arg[1][2].amount >= 0
        /\ player.dr = << >>) =>
            player'.hp_current =
                player.hp_current
                    - Max2(0, last'.arg[1][2].amount - last'.arg[1][1].amount)]_vars

\* the pool of 2 is stored untouched and the packet of 4 went to the hit
\* points whole
TempHpBypassed ==
    /\ last.op = "execute_operations"
    /\ last.arg = << << OpTempHP(2), OpDamage(4, "physical.bludgeoning", FALSE) >>, 1 >>
    /\ player.dr = << >>
    /\ player.hp_current = 16
    /\ Len(resources) = 1
    /\ resources[1].key = << "effect", 1 >>
    /\ resources[1].current = 2

----------------------------------------------------------------------------
(* The per-hit cap of an absorption pool                                   *)

\* C35: within one apply_packets call a pool with absorbPerHit = c gives up
\* at most c points, summed over all packets of the call.
C35_PerHitCapPerCall ==
    [][last'.op = "apply_packets" =>
          \A i \in DOMAIN resources :
              resources[i].absorbPerHit # NoneInt =>
                  resources[i].current - resources'[i].current
                      <= resources[i].absorbPerHit]_vars

\* two physical packets of 4 in one call against the pool of 3 with 2 per
\* hit: the pool gave 2 to the first and its last point to the second
CapTakenTwice ==
    /\ last.op = "apply_packets"
    /\ last.arg = << DamagePacket(4, "physical.slashing", FALSE, {}, {}),
                     DamagePacket(4, "physical.bludgeoning", FALSE, {}, {}) >>
    /\ player.dr = << >>
    /\ Len(resources) = 1
    /\ resources[1].absorbPerHit = 2
    /\ resources[1].current = 0
    /\ last.ret.working[1].amount = 2
    /\ last.ret.working[2].amount = 3

----------------------------------------------------------------------------
(* Hooks declared by conditions                                            *)

\* the hooks registered for the instance
HooksOf(bs, instance_id) == { h \in AllHooks(bs) : HookParent(h) = instance_id }

\* C36: the rule hooks a condition definition declares are registered
\* while an instance of the condition is stored: every stored instance has
\* one registered hook per hook its definition declares.
C36_ConditionHooksWhileStored ==
    \A i \in DOMAIN active_conditions :
        active_conditions[i].definition_id \in ConditionIds =>
            Cardinality(HooksOf(by_scope, active_conditions[i].instance_id))
                = Len(ConditionDefs[active_conditions[i].definition_id].ruleHooks)

\* a paralyzed instance, whose definition declares an on.attack hook, is
\* stored and the registry is empty
ConditionWithoutHooks ==
    /\ last.op = "condition.apply"
    /\ last.arg[1] = "cond.paralyzed"
    /\ last.ret = "applied"
    /\ Len(active_conditions) = 1
    /\ AllHooks(by_scope) = {}

----------------------------------------------------------------------------
(* Owners of the registered hooks                                          *)

\* an effect, condition or zone instance with this id is stored
Stored(instance_id) ==
    \/ \E i \in DOMAIN active_effects : active_effects[i].instance_id = instance_id
    \/ \E i \in DOMAIN active_conditions : active_conditions[i].instance_id = instance_id
    \/ \E i \in DOMAIN active_zones : active_zones[i].instance_id = instance_id

\* C37: every hook of the registry is owned by an effect, condition or zone
\* instance that is stored; after a detach or a zone destroy no hook of the
\* removed instance is left in a bucket.
C37_HooksOwnedByStored ==
    \A h \in AllHooks(by_scope) : Stored(HookParent(h))

\* a detached shield whose incoming.damage and scheduler hooks are still
\* in their buckets
HooksOutliveDetach ==
    /\ last.op = "detach"
    /\ last.ret = "True"
    /\ active_effects = << >>
    /\ Len(by_scope["scheduler"]) = 1
    /\ Len(by_scope["incoming.damage"]) = 1
    /\ HookParent(by_scope["scheduler"][1]) = last.arg[1]

----------------------------------------------------------------------------
(* Expiry of rounds instances under repeated round advances                *)

\* an effect or condition instance with this id and a rounds duration is
\* stored
RoundsStored(instance_id) ==
    \/ \E i \in DOMAIN active_effects :
          /\ active_effects[i].instance_id = instance_id
          /\ active_effects[i].duration_type = "rounds"
    \/ \E i \in DOMAIN active_conditions :
          /\ active_conditions[i].instance_id = instance_id
          /\ active_conditions[i].duration_type = "rounds"

\* the same, for an instance whose remaining_rounds holds a number
CountedStored(instance_id) ==
    \/ \E i \in DOMAIN active_effects :
          active_effects[i].instance_id = instance_id /\ Ticks(active_effects[i])
    \/ \E i \in DOMAIN active_conditions :
          active_conditions[i].instance_id = instance_id /\ Ticks(active_conditions[i])

\* the overrides of SpecLive: none, 2 rounds, and the rounds duration
\* that carries neither value nor formula
LiveOverrides == DurationOverrides \cup { DurationSpec("rounds", NoneInt) }

\* "next" of the host loop; past MaxRounds the game is followed for as long
\* as an instance is still counting down (an advance past that point
\* changes nothing but the round counter)
LiveAdvance ==
    /\ round_counter < MaxRounds \/ \E instance_id \in 1..MaxInst : CountedStored(instance_id)
    /\ AdvanceBody(conditions_tick_round(active_conditions),
                   effects_tick_round(active_effects, Registry(by_scope, parent_index)),
                   zones_tick_round(active_zones,
                                    effects_tick_round(active_effects,
                                                       Registry(by_scope, parent_index)).reg))
    /\ UNCHANGED << rng, twin >>

\* attach and apply happen in the first MaxRounds rounds only
NextLive ==
    \/ round_counter < MaxRounds
          /\ \E effect_id \in {"spell.shield", "spell.hold"} : Cast(effect_id)
    \/ round_counter < MaxRounds
          /\ \E cond_id \in ConditionIds, d \in LiveOverrides, stacks \in BOOLEAN :
                ApplyCondition(cond_id, d, stacks)
    \/ LiveAdvance

\* the host keeps advancing the round
SpecLive == Init /\ [][NextLive]_vars /\ WF_vars(LiveAdvance)

CountedInstancesExpire ==
    \A instance_id \in 1..MaxInst :
        CountedStored(instance_id) ~> ~RoundsStored(instance_id)

\* a rounds condition without a round count, still stored after the last
\* round in which anything counts down
UncountedOutlives ==
    /\ round_counter = MaxRounds
    /\ Len(active_conditions) = 1
    /\ active_conditions[1].duration_type = "rounds"
    /\ active_conditions[1].remaining_rounds = NoneInt
    /\ active_effects = << >>

----------------------------------------------------------------------------
(* Entries of the scheduled queue, from schedule_in_rounds to the drain    *)

MaxQueue == 3

\* the delays a caller passes
Delays == {-1, 0, 1, 2}

\* what each scheduled entry does when it runs: one point of damage
ScheduledDamage == << OpDamage(1, "typeless", FALSE) >>

\* Scheduler.schedule_in_rounds(player.id, rounds, actions)
ScheduleInRounds(rounds) ==
    /\ Len(sched_queue) < MaxQueue
    /\ sched_queue' = schedule_in_rounds(sched_queue,
                                         scheduler_round(sched_round, round_counter),
                                         rounds, ScheduledDamage)
    /\ last' = Call("schedule_in_rounds", << rounds >>, "", NoOutcome, 0, << >>)
    /\ UNCHANGED << player, active_effects, active_conditions, by_scope, parent_index,
                    resources, active_zones, sched_round, save_file, rng, twin,
                    round_counter, next_id >>

NextQueue ==
    \/ \E rounds \in Delays : ScheduleInRounds(rounds)
    \/ SchedulerAdvance
    \/ AdvanceRound

SpecQueue == Init /\ [][NextQueue]_vars

\* C39: an entry scheduled with delay d at round R is due at round
\* R + d, or R + 1 when d < 1; it stays in the queue through every step
\* that is not a drain and through every drain at an earlier round; the
\* first drain at a round >= its due round removes it and runs its
\* actions exactly once (one operation run and one hit point lost per due
\* entry, hit points stopping at 0).
C39_ScheduledOnce ==
    [][/\ last'.op = "schedule_in_rounds" =>
            sched_queue' =
                Append(sched_queue,
                       Scheduled(round_counter
                                    + (IF last'.arg[1] < 1 THEN 1 ELSE last'.arg[1]),
                                 ScheduledDamage))
       /\ last'.op = "advance_rounds" =>
            /\ sched_queue' = SelectSeq(sched_queue, LAMBDA q : q.when_round > round_counter')
            /\ player'.hp_current =
                   Max2(0, player.hp_current
                      - Len(SelectSeq(sched_queue, LAMBDA q : q.when_round <= round_counter')))
            /\ last'.ops_run =
                   Len(SelectSeq(sched_queue, LAMBDA q : q.when_round <= round_counter'))
       /\ last'.op \notin {"schedule_in_rounds", "advance_rounds"} =>
            /\ sched_queue' = sched_queue
            /\ player'.hp_current = player.hp_current]_vars

\* a drain at round 2 that ran the two entries due by then and kept the
\* entry that is due at round 3
C39_Witness ==
    /\ last.op = "advance_rounds"
    /\ round_counter = 2
    /\ last.ops_run = 2
    /\ player.hp_current = player.hp_max - 2
    /\ Len(sched_queue) = 1
    /\ sched_queue[1].when_round = 3

====
